---- MODULE Spec2Model ----
\* A model of brownie.datastructures (src/brownie/datastructures/__init__.py).
\* Every container is a record; every method is an operator that takes the
\* object (and its arguments) and returns an outcome record
\*     [self |-> the object afterwards, ret |-> the value returned,
\*      exc |-> the name of the exception raised, or NoExc].
\* Keys and values are small positive integers and Python's None is the value
\* 0. An optional argument is a sequence: <<>> when it is not given (the
\* module's `missing` sentinel), <<d>> when d is given.
EXTENDS Integers, Sequences, FiniteSets, TLC

VARIABLES od, hist, last, call, ret, ll, im, md

vars == <<od, hist, last, call, ret, ll, im, md>>

\* ---------------------------------------------------------------- bounds
NKeys == 3
NVals == 2
MaxPairs == 2
MaxKw == 1
MaxItems == 2
MaxSeqs == 2
MaxLen == 3
MaxElems == 3
MaxIndex == 5
MaxSrc == 2
MaxEdit == 1
MaxCmp == 2
MaxInit == 3
MaxStored == 4
MaxHeld == 2
MaxDicts == 2
MaxCount == 2

Keys == 1..NKeys
Values == 1..NVals

\* ---------------------------------------------------------------- helpers
None == 0
missing == <<>>
Given(d) == <<d>>
NoExc == "none"
Idle == "idle"
Pending == <<>>
Done(v) == <<v>>

Ok(self, value) == [self |-> self, ret |-> value, exc |-> NoExc]
Raise(self, exc) == [self |-> self, ret |-> None, exc |-> exc]

EmptyMap == [k \in {} |-> None]
Range(s) == {s[i] : i \in 1..Len(s)}
Restrict(f, S) == [x \in S |-> f[x]]
Min(a, b) == IF a <= b THEN a ELSE b
Max(a, b) == IF a >= b THEN a ELSE b

SeqsUpTo(S, n) == UNION {[1..m -> S] : m \in 0..n}
Pairs == Keys \X Values
NoDupKeys(ps) == \A i, j \in 1..Len(ps) : ps[i][1] = ps[j][1] => i = j

\* chain.from_iterable: the sequences one after the other.
RECURSIVE Flatten(_)
Flatten(seqs) == IF seqs = <<>> THEN <<>> ELSE Head(seqs) \o Flatten(Tail(seqs))

\* The keys of a sequence of (key, value) pairs.
Keys1(ps) == [i \in 1..Len(ps) |-> ps[i][1]]

RECURSIVE Remove(_, _)
Remove(s, x) ==
    IF s = <<>> THEN <<>>
    ELSE IF Head(s) = x THEN Remove(Tail(s), x)
    ELSE <<Head(s)>> \o Remove(Tail(s), x)

\* brownie.itools.unique: each distinct element once, in first-occurrence order.
RECURSIVE unique(_)
unique(s) ==
    IF s = <<>> THEN <<>>
    ELSE <<Head(s)>> \o unique(Remove(Tail(s), Head(s)))

\* ---------------------------------------------------------------- classes
\* The mapping classes, their bases as written in the class statements, and
\* the methods each class body defines among __init__ and the mutating ones.
Mutators ==
    {"__setitem__", "__delitem__", "setdefault", "update", "pop", "popitem", "clear",
     "move_to_end", "add", "setlist", "setlistdefault", "poplist", "popitemlist"}

DictMutators ==
    {"__setitem__", "__delitem__", "setdefault", "update", "pop", "popitem", "clear"}

\* The methods of dict and of OrderedDict by which a caller changes the mapping.
DictMethods == DictMutators \cup {"__init__"}

ListMutators == {"add", "setlist", "setlistdefault", "poplist", "popitemlist"}

Bases(c) ==
    CASE c = "dict" -> <<"object">>
      [] c = "ImmutableDictMixin" -> <<"object">>
      [] c = "ImmutableDict" -> <<"ImmutableDictMixin", "dict">>
      [] c = "CombinedDictMixin" -> <<"object">>
      [] c = "CombinedDict" -> <<"CombinedDictMixin", "ImmutableDictMixin", "dict">>
      [] c = "MultiDictMixin" -> <<"object">>
      [] c = "MultiDict" -> <<"MultiDictMixin", "dict">>
      [] c = "ImmutableMultiDictMixin" -> <<"ImmutableDictMixin", "MultiDictMixin">>
      [] c = "ImmutableMultiDict" -> <<"ImmutableMultiDictMixin", "dict">>
      [] c = "CombinedMultiDict" ->
             <<"CombinedDictMixin", "ImmutableMultiDictMixin", "dict">>
      [] c = "OrderedDict" -> <<"dict">>
      [] c = "ImmutableOrderedDict" -> <<"ImmutableDictMixin", "OrderedDict">>
      [] c = "OrderedMultiDict" -> <<"MultiDictMixin", "OrderedDict">>
      [] c = "ImmutableOrderedMultiDict" ->
             <<"ImmutableMultiDictMixin", "ImmutableOrderedDict">>

Defines(c) ==
    CASE c = "dict" -> DictMethods
      [] c = "ImmutableDictMixin" -> DictMutators
      [] c = "CombinedDictMixin" -> {"__init__"}
      [] c = "MultiDictMixin" ->
             {"__init__", "__setitem__", "setdefault", "pop", "popitem", "update"}
                 \cup ListMutators
      [] c = "ImmutableMultiDictMixin" -> ListMutators
      [] c = "OrderedDict" -> DictMethods \cup {"move_to_end"}
      [] c = "ImmutableOrderedDict" -> {"move_to_end"}
      [] OTHER -> {}

\* Python's C3 linearisation: the first head that is in no other list's tail.
RECURSIVE Merge(_)
Merge(lists) ==
    LET ne == SelectSeq(lists, LAMBDA l : l # <<>>)
        good(i) == \A j \in 1..Len(ne) : Head(ne[i]) \notin Range(Tail(ne[j]))
        idx == CHOOSE i \in 1..Len(ne) : good(i) /\ \A j \in 1..(i - 1) : ~good(j)
        h == Head(ne[idx])
    IN  IF ne = <<>> THEN <<>>
        ELSE <<h>> \o Merge([k \in 1..Len(ne) |->
                                IF Head(ne[k]) = h THEN Tail(ne[k]) ELSE ne[k]])

RECURSIVE Linearise(_)
Linearise(c) ==
    IF c = "object" THEN <<"object">>
    ELSE LET bs == Bases(c)
         IN  <<c>> \o Merge([i \in 1..Len(bs) |-> Linearise(bs[i])] \o <<bs>>)

Classes ==
    {"object", "dict", "ImmutableDictMixin", "ImmutableDict", "CombinedDictMixin",
     "CombinedDict", "MultiDictMixin", "MultiDict", "ImmutableMultiDictMixin",
     "ImmutableMultiDict", "CombinedMultiDict", "OrderedDict", "ImmutableOrderedDict",
     "OrderedMultiDict", "ImmutableOrderedMultiDict"}

\* cls.__mro__, computed once per class as the interpreter does.
MROs == [c \in Classes |-> Linearise(c)]

MRO(c) == MROs[c]

\* Attribute lookup: the first class of `order` whose body defines `name`;
\* "object" when none does (the attribute does not exist).
RECURSIVE FirstDefining(_, _)
FirstDefining(order, name) ==
    IF order = <<>> THEN "object"
    ELSE IF name \in Defines(Head(order)) THEN Head(order)
    ELSE FirstDefining(Tail(order), name)

Resolve(cls, name) == FirstDefining(MRO(cls), name)

RECURSIVE After(_, _)
After(order, c) ==
    IF order = <<>> THEN <<>>
    ELSE IF Head(order) = c THEN Tail(order)
    ELSE After(Tail(order), c)

\* super(after, self).name
Super(cls, after, name) == FirstDefining(After(MRO(cls), after), name)

\* The virtual_superclasses each class body declares.
VirtualSuperclasses(c) ==
    CASE c = "CombinedDict" -> {"ImmutableDict"}
      [] c = "ImmutableMultiDict" -> {"MultiDict", "ImmutableDict"}
      [] c = "CombinedMultiDict" -> {"ImmutableMultiDict"}
      [] c = "ImmutableOrderedDict" -> {"ImmutableDict"}
      [] c = "OrderedMultiDict" -> {"MultiDict"}
      [] c = "ImmutableOrderedMultiDict" -> {"ImmutableMultiDict", "OrderedMultiDict"}
      [] OTHER -> {}

\* brownie.abstract.AbstractClassMeta: a class is classified under its real
\* bases and under its virtual superclasses, transitively.
RECURSIVE Ancestors(_)
Ancestors(c) ==
    LET up == (Range(MRO(c)) \ {c}) \cup VirtualSuperclasses(c)
    IN  {c} \cup UNION {Ancestors(b) : b \in up}

Classified == [c \in Classes |-> Ancestors(c)]

Classifies(obj, cls) == cls \in Classified[obj.cls]

\* raise_immutable, the classmethod the immutable mixins bind their mutating
\* methods to.
\* Called through the class it raises TypeError('%r objects are immutable').
Immutable == "TypeError: objects are immutable"
raise_immutable(self) == Raise(self, Immutable)

\* raise_immutable(self), the module-level name called directly: the name is
\* bound to a classmethod object, and a classmethod object cannot be called.
NotCallable == "TypeError: 'classmethod' object is not callable"
call_raise_immutable(self) == Raise(self, NotCallable)

\* ---------------------------------------------------------------- OrderedDict
\* self.data is the dict part (key -> value); self.map is the key set of
\* self._map; a _Link is identified by its key, the root link by Root, and
\* self.next / self.prev hold the links' next / prev fields.
Root == 0

\* A mapping object of class cls: its dict part, its link list, and (for the
\* combined views) the list of combined dictionaries.
New(cls) ==
    [cls |-> cls, data |-> EmptyMap, map |-> {}, next |-> (Root :> Root),
     prev |-> (Root :> Root), dicts |-> <<>>]

\* A mutant of __setitem__: links the key without testing `key not in self`.
OrderedDict__setitem__relink(self, key, value) ==
    LET unl == IF key \in self.map
               THEN [next |-> [self.next EXCEPT ![self.prev[key]] = self.next[key]],
                     prev |-> [self.prev EXCEPT ![self.next[key]] = self.prev[key]]]
               ELSE [next |-> self.next, prev |-> self.prev]
        lst == unl.prev[Root]
    IN  [self EXCEPT
           !.data = (key :> value) @@ self.data,
           !.map = self.map \cup {key},
           !.next = (key :> Root) @@ [unl.next EXCEPT ![lst] = key],
           !.prev = (key :> lst) @@ [unl.prev EXCEPT ![Root] = key]]

OrderedDict__setitem__(self, key, value) ==
    LET lst == self.prev[Root]
        linked == IF key \notin DOMAIN self.data
                  THEN [self EXCEPT
                          !.next = (key :> Root) @@ [self.next EXCEPT ![lst] = key],
                          !.prev = (key :> lst) @@ [self.prev EXCEPT ![Root] = key],
                          !.map = self.map \cup {key}]
                  ELSE self
    IN  [linked EXCEPT !.data = (key :> value) @@ self.data]

\* A mutant of __delitem__: prev.next is set, next.prev is left as it was.
OrderedDict__delitem__forward(self, key) ==
    IF key \notin DOMAIN self.data THEN Raise(self, "KeyError")
    ELSE LET keep == DOMAIN self.next \ {key}
         IN  Ok([self EXCEPT
                   !.data = Restrict(self.data, DOMAIN self.data \ {key}),
                   !.map = self.map \ {key},
                   !.next = Restrict([self.next EXCEPT ![self.prev[key]] = self.next[key]], keep),
                   !.prev = Restrict(self.prev, keep)], None)

OrderedDict__delitem__(self, key) ==
    IF key \notin DOMAIN self.data THEN Raise(self, "KeyError")
    ELSE LET p == self.prev[key]
             n == self.next[key]
             nx == [self.next EXCEPT ![p] = n]
             pv == [self.prev EXCEPT ![n] = p]
             keep == DOMAIN self.next \ {key}
         IN  Ok([self EXCEPT
                   !.data = Restrict(self.data, DOMAIN self.data \ {key}),
                   !.map = self.map \ {key},
                   !.next = Restrict(nx, keep),
                   !.prev = Restrict(pv, keep)], None)

RECURSIVE Follow(_, _, _)
Follow(f, curr, fuel) ==
    IF curr = Root \/ fuel = 0 THEN <<>>
    ELSE <<curr>> \o Follow(f, f[curr], fuel - 1)

OrderedDict__iter__(self) == Follow(self.next, self.next[Root], Cardinality(DOMAIN self.next))

OrderedDict__reversed__(self) == Follow(self.prev, self.prev[Root], Cardinality(DOMAIN self.prev))

OrderedDict_iteritems(self) ==
    LET ks == OrderedDict__iter__(self)
    IN  [i \in 1..Len(ks) |-> <<ks[i], self.data[ks[i]]>>]

OrderedDict_setdefault(self, key, default) ==
    LET s == IF key \notin DOMAIN self.data
             THEN OrderedDict__setitem__(self, key, default)
             ELSE self
    IN  Ok(s, s.data[key])

\* `del self[key]` inside pop is looked up on the object's own class.
OrderedDict_pop(self, key, default) ==
    IF key \in DOMAIN self.data
    THEN LET d == IF Resolve(self.cls, "__delitem__") = "OrderedDict"
                  THEN OrderedDict__delitem__(self, key)
                  ELSE raise_immutable(self)
         IN  IF d.exc = NoExc THEN Ok(d.self, self.data[key]) ELSE d
    ELSE IF default = missing THEN Raise(self, "KeyError")
    ELSE Ok(self, default[1])

\* A mutant of popitem: the key is taken from iter(self) whatever `last` is.
OrderedDict_popitem_oldest(self, lastFlag) ==
    IF DOMAIN self.data = {} THEN Raise(self, "KeyError")
    ELSE LET key == Head(OrderedDict__iter__(self))
             r == OrderedDict_pop(self, key, missing)
         IN  IF r.exc = NoExc THEN Ok(r.self, <<key, r.ret>>) ELSE r

OrderedDict_popitem(self, lastFlag) ==
    IF DOMAIN self.data = {} THEN Raise(self, "KeyError")
    ELSE LET key == IF lastFlag THEN Head(OrderedDict__reversed__(self))
                    ELSE Head(OrderedDict__iter__(self))
             r == OrderedDict_pop(self, key, missing)
         IN  IF r.exc = NoExc THEN Ok(r.self, <<key, r.ret>>) ELSE r

RECURSIVE SetItems(_, _)
SetItems(self, ps) ==
    IF ps = <<>> THEN self
    ELSE SetItems(OrderedDict__setitem__(self, Head(ps)[1], Head(ps)[2]), Tail(ps))

\* update(arg, **kw): the positional source's pairs, then the keyword bindings.
OrderedDict_update(self, arg, kw) == Ok(SetItems(SetItems(self, arg), kw), None)

OrderedDict_clear(self) ==
    Ok([self EXCEPT !.data = EmptyMap, !.map = {}, !.next = (Root :> Root),
                    !.prev = (Root :> Root)], None)

\* OrderedDict.__init__ on a fresh object of class cls.
OrderedDict__init__(cls, arg, kw) == OrderedDict_update(New(cls), arg, kw).self

\* A mutant of move_to_end: the link is not taken out of the list first.
OrderedDict_move_to_end_linked(self, key, lastFlag) ==
    IF key \notin DOMAIN self.data THEN Raise(self, "KeyError")
    ELSE LET replacing == IF lastFlag THEN self.prev[Root] ELSE self.next[Root]
             next2 == IF lastFlag THEN [self.next EXCEPT ![replacing] = key]
                      ELSE [self.next EXCEPT ![Root] = key]
             prev2 == IF lastFlag THEN [self.prev EXCEPT ![Root] = key]
                      ELSE [self.prev EXCEPT ![replacing] = key]
         IN  Ok([self EXCEPT
                   !.next = [next2 EXCEPT ![key] = IF lastFlag THEN Root ELSE replacing],
                   !.prev = [prev2 EXCEPT ![key] = IF lastFlag THEN replacing ELSE Root]],
                None)

OrderedDict_move_to_end(self, key, lastFlag) ==
    IF key \notin DOMAIN self.data THEN Raise(self, "KeyError")
    ELSE LET p == self.prev[key]
             n == self.next[key]
             next1 == [self.next EXCEPT ![p] = n]
             prev1 == [self.prev EXCEPT ![n] = p]
             replacing == IF lastFlag THEN prev1[Root] ELSE next1[Root]
             next2 == IF lastFlag THEN [next1 EXCEPT ![replacing] = key]
                      ELSE [next1 EXCEPT ![Root] = key]
             prev2 == IF lastFlag THEN [prev1 EXCEPT ![Root] = key]
                      ELSE [prev1 EXCEPT ![replacing] = key]
         IN  Ok([self EXCEPT
                   !.next = [next2 EXCEPT ![key] = IF lastFlag THEN Root ELSE replacing],
                   !.prev = [prev2 EXCEPT ![key] = IF lastFlag THEN replacing ELSE Root]],
                None)

\* isinstance(obj, cls) for the mapping classes.
IsInstance(obj, cls) == cls \in Range(MRO(obj.cls))

\* izip stops with the shorter of its two iterators.
izip(a, b) == [i \in 1..Min(Len(a), Len(b)) |-> <<a[i], b[i]>>]

OrderedDict__eq__(self, other) ==
    IF IsInstance(other, self.cls)
    THEN LET zs == izip(OrderedDict_iteritems(self), OrderedDict_iteritems(other))
         IN  \A i \in 1..Len(zs) : zs[i][1] = zs[i][2]
    ELSE self.data = other.data

OrderedDict__ne__(self, other) == ~OrderedDict__eq__(self, other)

\* ---------------------------------------------------------------- dict
\* The built-in dict the classes derive from. Its iteration order is the hash
\* order, which for the small integer keys used here is ascending.
RECURSIVE Ascending(_)
Ascending(S) ==
    IF S = {} THEN <<>>
    ELSE LET m == CHOOSE x \in S : \A y \in S : x <= y
         IN  <<m>> \o Ascending(S \ {m})

dict__iter__(self) == Ascending(DOMAIN self.data)

dict__setitem__(self, key, value) == [self EXCEPT !.data = (key :> value) @@ self.data]

dict__delitem__(self, key) ==
    IF key \notin DOMAIN self.data THEN Raise(self, "KeyError")
    ELSE Ok([self EXCEPT !.data = Restrict(self.data, DOMAIN self.data \ {key})], None)

dict_setdefault(self, key, default) ==
    LET s == IF key \notin DOMAIN self.data THEN dict__setitem__(self, key, default)
             ELSE self
    IN  Ok(s, s.data[key])

dict_pop(self, key, default) ==
    IF key \in DOMAIN self.data
    THEN Ok(dict__delitem__(self, key).self, self.data[key])
    ELSE IF default = missing THEN Raise(self, "KeyError")
    ELSE Ok(self, default[1])

\* popitem() removes an arbitrary item: `choice` is the key it picks.
dict_popitem(self, choice) ==
    IF choice \notin DOMAIN self.data THEN Raise(self, "KeyError")
    ELSE Ok(dict__delitem__(self, choice).self, <<choice, self.data[choice]>>)

RECURSIVE dictSetItems(_, _)
dictSetItems(self, ps) ==
    IF ps = <<>> THEN self
    ELSE dictSetItems(dict__setitem__(self, Head(ps)[1], Head(ps)[2]), Tail(ps))

dict_update(self, arg, kw) == Ok(dictSetItems(dictSetItems(self, arg), kw), None)

dict_clear(self) == Ok([self EXCEPT !.data = EmptyMap], None)

dict__init__(cls, arg, kw) == dict_update(New(cls), arg, kw).self

\* ---------------------------------------------------------------- MultiDictMixin
\* super(MultiDictMixin, self).<name>: OrderedDict's method for the ordered
\* classes, dict's for the others.
Base(self, name) == Super(self.cls, "MultiDictMixin", name)

Base__setitem__(self, key, value) ==
    CASE Base(self, "__setitem__") = "OrderedDict" ->
             Ok(OrderedDict__setitem__(self, key, value), None)
      [] Base(self, "__setitem__") = "dict" -> Ok(dict__setitem__(self, key, value), None)
      [] OTHER -> raise_immutable(self)

Base_setdefault(self, key, default) ==
    CASE Base(self, "setdefault") = "OrderedDict" -> OrderedDict_setdefault(self, key, default)
      [] Base(self, "setdefault") = "dict" -> dict_setdefault(self, key, default)
      [] OTHER -> raise_immutable(self)

Base_pop(self, key, default) ==
    CASE Base(self, "pop") = "OrderedDict" -> OrderedDict_pop(self, key, default)
      [] Base(self, "pop") = "dict" -> dict_pop(self, key, default)
      [] OTHER -> raise_immutable(self)

\* popitem(*args): OrderedDict's takes `last`, dict's picks the key `choice`.
Base_popitem(self, lastFlag, choice) ==
    CASE Base(self, "popitem") = "OrderedDict" -> OrderedDict_popitem(self, lastFlag)
      [] Base(self, "popitem") = "dict" -> dict_popitem(self, choice)
      [] OTHER -> raise_immutable(self)

Base__init__(cls, arg, kw) ==
    IF Super(cls, "MultiDictMixin", "__init__") = "OrderedDict"
    THEN OrderedDict__init__(cls, arg, kw)
    ELSE dict__init__(cls, arg, kw)

\* The keys in the order super(MultiDictMixin, self).iteritems() yields them.
Base__iter__(self) ==
    IF "OrderedDict" \in Range(MRO(self.cls)) THEN OrderedDict__iter__(self)
    ELSE dict__iter__(self)

MultiDictMixin__getitem__(self, key) ==
    IF key \notin DOMAIN self.data THEN Raise(self, "KeyError")
    ELSE IF self.data[key] = <<>> THEN Raise(self, "IndexError")
    ELSE Ok(self, self.data[key][1])

MultiDictMixin__setitem__(self, key, value) == Base__setitem__(self, key, <<value>>)

MultiDictMixin_get(self, key, default) ==
    LET r == MultiDictMixin__getitem__(self, key)
    IN  IF r.exc = "KeyError" THEN Ok(self, default) ELSE r

MultiDictMixin_add(self, key, value) ==
    LET r == Base_setdefault(self, key, <<>>)
    IN  IF r.exc # NoExc THEN r
        ELSE Ok([r.self EXCEPT !.data[key] = Append(r.self.data[key], value)], None)

MultiDictMixin_getlist(self, key) ==
    IF key \in DOMAIN self.data THEN self.data[key] ELSE <<>>

MultiDictMixin_setlist(self, key, values) == Base__setitem__(self, key, values)

MultiDictMixin_setdefault(self, key, default) ==
    IF key \notin DOMAIN self.data
    THEN LET r == MultiDictMixin__setitem__(self, key, default)
         IN  IF r.exc = NoExc THEN Ok(r.self, default) ELSE r
    ELSE MultiDictMixin__getitem__(self, key)

\* default_list is <<>> when it is not given or empty: `default_list or (None, )`.
MultiDictMixin_setlistdefault(self, key, default_list) ==
    IF key \notin DOMAIN self.data
    THEN LET dl == IF default_list = <<>> THEN <<None>> ELSE default_list
             r == MultiDictMixin_setlist(self, key, dl)
         IN  IF r.exc = NoExc THEN Ok(r.self, dl) ELSE r
    ELSE Ok(self, MultiDictMixin_getlist(self, key))

RECURSIVE ItemsOf(_, _, _)
ItemsOf(self, ks, multi) ==
    IF ks = <<>> THEN <<>>
    ELSE LET k == Head(ks)
             vs == self.data[k]
         IN  (IF multi THEN [i \in 1..Len(vs) |-> <<k, vs[i]>>] ELSE <<(<<k, vs[1]>>)>>)
             \o ItemsOf(self, Tail(ks), multi)

\* A mutant of iteritems: with multi=True it still yields the first value only.
MultiDictMixin_iteritems_first(self, multi) ==
    LET ks == Base__iter__(self)
    IN  [i \in 1..Len(ks) |-> <<ks[i], self.data[ks[i]][1]>>]

MultiDictMixin_iteritems(self, multi) == ItemsOf(self, Base__iter__(self), multi)

MultiDictMixin_iterlists(self) ==
    LET ks == Base__iter__(self)
    IN  [i \in 1..Len(ks) |-> <<ks[i], self.data[ks[i]]>>]

MultiDictMixin_pop(self, key, default) ==
    LET r == Base_pop(self, key, default)
    IN  IF r.exc # NoExc THEN r
        ELSE IF key \notin DOMAIN self.data THEN Ok(r.self, default[1])
        ELSE IF r.ret = <<>> THEN Raise(r.self, "IndexError")
        ELSE Ok(r.self, r.ret[1])

MultiDictMixin_popitem(self, lastFlag, choice) ==
    LET r == Base_popitem(self, lastFlag, choice)
    IN  IF r.exc # NoExc THEN r
        ELSE IF r.ret[2] = <<>> THEN Raise(r.self, "IndexError")
        ELSE Ok(r.self, <<r.ret[1], r.ret[2][1]>>)

MultiDictMixin_poplist(self, key) == Base_pop(self, key, Given(<<>>))

MultiDictMixin_popitemlist(self, choice) == Base_popitem(self, TRUE, choice)

\* A positional source is one of
\*   [kind |-> "pairs", items |-> a sequence of <<key, value>>]
\*   [kind |-> "dict", items |-> a sequence of [key, list, values]], a plain
\*       dict in its iteration order whose value under key is the list
\*       `values` (list = TRUE) or the scalar values[1] (list = FALSE)
\*   [kind |-> "multi", obj |-> a multi-value mapping]
\*   [kind |-> "none"], no positional argument.
NoSource == [kind |-> "none"]

\* list(value) for a tuple or list, [value] for anything else.
AsList(e) == IF e.list THEN e.values ELSE <<e.values[1]>>

\* tmp.setdefault(key, []).append(value) over the pairs, read back per key.
ValuesOf(ps, key) ==
    LET own == SelectSeq(ps, LAMBDA p : p[1] = key)
    IN  [i \in 1..Len(own) |-> own[i][2]]

\* A mutant of the grouping: every pair becomes a list of its own, so that a
\* later pair replaces an earlier one with the same key.
Grouped_ungrouped(ps) == [i \in 1..Len(ps) |-> <<ps[i][1], <<ps[i][2]>>>>]

Grouped(ps) ==
    LET ks == unique(Keys1(ps))
    IN  [i \in 1..Len(ks) |-> <<ks[i], ValuesOf(ps, ks[i])>>]

\* The (key, list) pairs MultiDictMixin.__init__ hands to the base class.
InitArg(cls, source) ==
    CASE source.kind = "none" -> <<>>
      [] source.kind = "multi" ->
             IF Classifies(source.obj, cls) THEN MultiDictMixin_iterlists(source.obj)
             ELSE LET its == MultiDictMixin_iteritems(source.obj, FALSE)
                  IN  [i \in 1..Len(its) |-> <<its[i][1], <<its[i][2]>>>>]
      [] source.kind = "dict" ->
             [i \in 1..Len(source.items) |-> <<source.items[i].key, AsList(source.items[i])>>]
      [] OTHER -> Grouped(source.items)

MultiDictMixin__init__(cls, source, kw) ==
    Base__init__(cls, InitArg(cls, source), [i \in 1..Len(kw) |-> <<kw[i][1], <<kw[i][2]>>>>])

\* iter_multi_items(mapping). Every multi-value class is classified under
\* MultiDict, so a multi-value mapping always takes the first branch.
iter_multi_items(mapping) ==
    CASE mapping.kind = "none" -> <<>>
      [] mapping.kind = "multi" -> MultiDictMixin_iteritems(mapping.obj, FALSE)
      [] mapping.kind = "dict" ->
             Flatten([i \in 1..Len(mapping.items) |->
                         LET e == mapping.items[i]
                         IN  IF e.list THEN [j \in 1..Len(e.values) |-> <<e.key, e.values[j]>>]
                             ELSE <<(<<e.key, e.values[1]>>)>>])
      [] OTHER -> mapping.items

\* MultiDictMixin.add over the pairs, in order.
RECURSIVE AddItems(_, _)
AddItems(self, ps) ==
    IF ps = <<>> THEN Ok(self, None)
    ELSE LET r == MultiDictMixin_add(self, Head(ps)[1], Head(ps)[2])
         IN  IF r.exc # NoExc THEN r ELSE AddItems(r.self, Tail(ps))

MultiDictMixin_update(self, source, kw) ==
    LET r == AddItems(self, iter_multi_items(source))
    IN  IF r.exc # NoExc THEN r ELSE AddItems(r.self, kw)

\* ---------------------------------------------------------------- combined views
\* A constituent is held as the mapping itself or, where the mapping's
\* identity matters (SpecCDRef), as a reference [ref |-> id] to an object of
\* the heap md.heap.
\* A mutant of __init__: the view keeps a copy of every constituent it is
\* given by reference.
CombinedDictMixin__init__copying(cls, dicts) ==
    [New(cls) EXCEPT !.dicts = [i \in 1..Len(dicts) |->
                                  IF "ref" \in DOMAIN dicts[i] THEN md.heap[dicts[i].ref]
                                  ELSE dicts[i]]]

CombinedDictMixin__init__(cls, dicts) == [New(cls) EXCEPT !.dicts = dicts]

CombinedDictMixin__contains__(self, key) ==
    \E i \in 1..Len(self.dicts) : key \in DOMAIN self.dicts[i].data

\* The keys of a constituent in its iteration order.
KeysOf(d) == IF "OrderedDict" \in Range(MRO(d.cls)) THEN OrderedDict__iter__(d) ELSE dict__iter__(d)

CombinedDictMixin__iter__(self) ==
    unique(Flatten([i \in 1..Len(self.dicts) |-> KeysOf(self.dicts[i])]))

\* d[key] on a constituent that holds the key: the first value of the list
\* for a multi-value mapping, the value for a dict or an OrderedDict.
ItemOf(d, key) ==
    IF IsInstance(d, "MultiDictMixin") THEN MultiDictMixin__getitem__(d, key)
    ELSE Ok(d, d.data[key])

\* A mutant of __getitem__: the last constituent holding the key wins.
RECURSIVE CombinedDictMixin__getitem__last(_, _, _)
CombinedDictMixin__getitem__last(self, ds, key) ==
    IF ds = <<>> THEN Raise(self, "KeyError")
    ELSE IF key \in DOMAIN ds[Len(ds)].data
    THEN LET r == ItemOf(ds[Len(ds)], key) IN [r EXCEPT !.self = self]
    ELSE CombinedDictMixin__getitem__last(self, SubSeq(ds, 1, Len(ds) - 1), key)

\* __getitem__, with ds the constituents the loop has yet to visit.
RECURSIVE CombinedDictMixin__getitem__(_, _, _)
CombinedDictMixin__getitem__(self, ds, key) ==
    IF ds = <<>> THEN Raise(self, "KeyError")
    ELSE IF key \in DOMAIN Head(ds).data
    THEN LET r == ItemOf(Head(ds), key) IN [r EXCEPT !.self = self]
    ELSE CombinedDictMixin__getitem__(self, Tail(ds), key)

CombinedDictMixin__len__(self) == Len(CombinedDictMixin__iter__(self))

\* A yielded (key, value) item whose value may be a scalar or a list:
\* [key |-> k, list |-> FALSE, values |-> <<v>>] is (k, v) and
\* [key |-> k, list |-> TRUE, values |-> l] is (k, l).
ScalarItem(k, v) == [key |-> k, list |-> FALSE, values |-> <<v>>]
ListItem(k, l) == [key |-> k, list |-> TRUE, values |-> l]

\* sum((d.getlist(key) for d in self.dicts), [])
CombinedMultiDict_getlist(self, key) ==
    Flatten([i \in 1..Len(self.dicts) |-> MultiDictMixin_getlist(self.dicts[i], key)])

\* result.setdefault(key, []).extend(values) over the (key, values) pairs.
RECURSIVE ExtendAll(_, _)
ExtendAll(result, ls) ==
    IF ls = <<>> THEN result
    ELSE LET key == Head(ls)[1]
             r == OrderedDict_setdefault(result, key, <<>>).self
         IN  ExtendAll([r EXCEPT !.data[key] = @ \o Head(ls)[2]], Tail(ls))

CombinedMultiDict_iterlists(self) ==
    OrderedDict_iteritems(
        ExtendAll(OrderedDict__init__("OrderedDict", <<>>, <<>>),
                  Flatten([i \in 1..Len(self.dicts) |-> MultiDictMixin_iterlists(self.dicts[i])])))

\* iteritems(multi): an outcome, since self[key] may raise with multi=False.
RECURSIVE ViewItems(_, _)
ViewItems(self, ks) ==
    IF ks = <<>> THEN Ok(self, <<>>)
    ELSE LET r == CombinedDictMixin__getitem__(self, self.dicts, Head(ks))
             rest == ViewItems(self, Tail(ks))
         IN  IF r.exc # NoExc THEN r
             ELSE IF rest.exc # NoExc THEN rest
             ELSE Ok(self, <<ScalarItem(Head(ks), r.ret)>> \o rest.ret)

CombinedMultiDict_iteritems(self, multi) ==
    LET ks == CombinedDictMixin__iter__(self)
    IN  IF multi
        THEN Ok(self, [i \in 1..Len(ks) |-> ListItem(ks[i], CombinedMultiDict_getlist(self, ks[i]))])
        ELSE ViewItems(self, ks)

\* ---------------------------------------------------------------- SpecOD
\* One OrderedDict under its mutating operations. hist is the reference order:
\* the live keys by the moment each was last added while absent; hist.gone
\* holds the keys that were present once and are absent now.
HistAfter(h, added, data) ==
    LET kept == SelectSeq(h, LAMBDA k : k \in DOMAIN data)
        new == SelectSeq(unique(added), LAMBDA k : k \notin Range(h) /\ k \in DOMAIN data)
    IN  kept \o new


IdleOthers == call = Idle /\ ret = Idle /\ ll = Idle /\ im = Idle /\ md = Idle

InitOD ==
    /\ od = OrderedDict__init__("OrderedDict", <<>>, <<>>)
    /\ hist = [order |-> <<>>, gone |-> {}]
    /\ last = [reassigned |-> FALSE, readded |-> FALSE]
    /\ IdleOthers

\* last.reassigned: the call assigned to a key that was present;
\* last.readded: the call added a key again that had been removed before.
StepOD(r, added) ==
    /\ od' = r.self
    /\ hist' = [order |-> HistAfter(hist.order, added, r.self.data),
                gone |-> (hist.gone \cup DOMAIN od.data) \ DOMAIN r.self.data]
    /\ last' = [reassigned |-> \E k \in Range(added) : k \in DOMAIN od.data,
                readded |-> \E k \in Range(added) : k \in hist.gone]
    /\ UNCHANGED <<call, ret, ll, im, md>>

\* The sources update() is called with: every key sequence of up to MaxPairs
\* keys, the i-th key paired with the value ValueAt(i).
ValueAt(i) == ((i - 1) % NVals) + 1
Sources(n) == {[i \in 1..Len(ks) |-> <<ks[i], ValueAt(i)>>] : ks \in SeqsUpTo(Keys, n)}

ODSetItem ==
    \E k \in Keys, v \in Values :
        StepOD(Ok(OrderedDict__setitem__(od, k, v), None), <<k>>)

ODDelItem ==
    \E k \in Keys : StepOD(OrderedDict__delitem__(od, k), <<>>)

ODSetDefault ==
    \E k \in Keys, v \in Values :
        StepOD(OrderedDict_setdefault(od, k, v), <<k>>)

ODPop ==
    \E k \in Keys, d \in {missing} \cup {Given(v) : v \in Values} :
        StepOD(OrderedDict_pop(od, k, d), <<>>)

ODPopItem ==
    \E l \in BOOLEAN : StepOD(OrderedDict_popitem(od, l), <<>>)

ODUpdate ==
    \E arg \in Sources(MaxPairs) :
        StepOD(OrderedDict_update(od, arg, <<>>), Keys1(arg))

ODUpdateKw ==
    \E kw \in Sources(MaxKw) :
        /\ NoDupKeys(kw)
        /\ StepOD(OrderedDict_update(od, <<>>, kw), Keys1(kw))

ODClear == StepOD(OrderedDict_clear(od), <<>>)

NextOD ==
    \/ ODSetItem
    \/ ODDelItem
    \/ ODSetDefault
    \/ ODPop
    \/ ODPopItem
    \/ ODUpdate
    \/ ODUpdateKw
    \/ ODClear

SpecOD == InitOD /\ [][NextOD]_vars

\* C1: after any sequence of assignments, deletions, pops, setdefault, popitem,
\* update and clear calls, iterating the OrderedDict yields exactly its live
\* keys, each once, ordered by the moment each was last added while absent.
C1_IterationOrder ==
    /\ OrderedDict__iter__(od) = hist.order
    /\ Range(hist.order) = DOMAIN od.data
    /\ Len(hist.order) = Cardinality(DOMAIN od.data)

\* One update() call has just re-assigned the present key 2 and added key 1
\* again after its removal: 2 keeps its place before 3, 1 goes last.
C1_Witness ==
    /\ last.reassigned
    /\ last.readded
    /\ hist.order = <<2, 3, 1>>

\* ---------------------------------------------------------------- SpecODEq
\* a == b and a != b for an OrderedDict a and a mapping b, each built by its
\* constructor from a sequence of items with distinct keys.
ItemSeqs == {ps \in SeqsUpTo(Pairs, MaxItems) : NoDupKeys(ps)}

Build(cls, ps) ==
    IF cls = "dict" THEN dict__init__(cls, ps, <<>>) ELSE OrderedDict__init__(cls, ps, <<>>)

InitODEq ==
    /\ call \in [a : ItemSeqs, b : ItemSeqs, bcls : {"OrderedDict", "dict"}]
    /\ ret = Pending
    /\ od = Idle /\ hist = Idle /\ last = Idle /\ ll = Idle /\ im = Idle /\ md = Idle

ODEq ==
    /\ ret = Pending
    /\ LET a == Build("OrderedDict", call.a)
           b == Build(call.bcls, call.b)
       IN  ret' = Done([eq |-> OrderedDict__eq__(a, b), ne |-> OrderedDict__ne__(a, b)])
    /\ UNCHANGED <<od, hist, last, call, ll, im, md>>

SpecODEq == InitODEq /\ [][ODEq]_vars

\* C2: for two OrderedDicts a and b, a == b exactly when their item sequences
\* are identical: the same number of items, pairwise equal, in the same order.
C2_EqIffSameItems ==
    (ret # Pending /\ call.bcls = "OrderedDict") => (ret[1].eq <=> call.a = call.b)

\* ---------------------------------------------------------------- CombinedSequence
\* A list is a sequence; Python's list[j] takes j in -len..len-1.
ListGet(seq, j) ==
    IF 0 <= j /\ j < Len(seq) THEN Ok(seq, seq[j + 1])
    ELSE IF j < 0 /\ -Len(seq) <= j THEN Ok(seq, seq[Len(seq) + j + 1])
    ELSE Raise(seq, "IndexError")

CombinedSequence__init__(sequences) == [sequences |-> sequences]

\* The loop over self.sequences; n is the position of the constituent at hand.
RECURSIVE AtIndexForward(_, _, _, _)
AtIndexForward(self, n, seen, index) ==
    IF n > Len(self.sequences) THEN Raise(self, "IndexError")
    ELSE LET sequence == self.sequences[n]
         IN  IF seen <= index /\ index < seen + Len(sequence)
             THEN Ok(self, [sequence |-> n, index |-> index - seen])
             ELSE AtIndexForward(self, n + 1, seen + Len(sequence), index)

\* The loop over reversed(self.sequences).
RECURSIVE AtIndexBackward(_, _, _, _)
AtIndexBackward(self, n, seen, index) ==
    IF n < 1 THEN Raise(self, "IndexError")
    ELSE LET sequence == self.sequences[n]
         IN  IF seen >= index /\ index > seen - Len(sequence)
             THEN Ok(self, [sequence |-> n, index |-> index - seen])
             ELSE AtIndexBackward(self, n - 1, seen - Len(sequence), index)

\* at_index returns the constituent (here: its position in self.sequences)
\* and the index local to it.
CombinedSequence_at_index(self, index) ==
    IF index >= 0 THEN AtIndexForward(self, 1, 0, index)
    ELSE AtIndexBackward(self, Len(self.sequences), 0, index)

CombinedSequence__getitem__(self, index) ==
    LET r == CombinedSequence_at_index(self, index)
    IN  IF r.exc # NoExc THEN r
        ELSE LET g == ListGet(self.sequences[r.ret.sequence], r.ret.index)
             IN  IF g.exc # NoExc THEN Raise(self, g.exc) ELSE Ok(self, g.ret)

CombinedSequence__iter__(self) == Flatten(self.sequences)

CombinedSequence__len__(self) == Len(Flatten(self.sequences))

\* ---------------------------------------------------------------- SpecCS
\* at_index and view[index] on a CombinedSequence whose constituents hold the
\* integers 1, 2, 3, ... in order, so that every element names its position.
RECURSIVE Numbered(_, _)
Numbered(lens, from) ==
    IF lens = <<>> THEN <<>>
    ELSE <<[i \in 1..Head(lens) |-> from + i]>> \o Numbered(Tail(lens), from + Head(lens))

Indices == (0 - MaxSeqs * MaxLen - 1)..(MaxSeqs * MaxLen)

InitCS ==
    /\ call \in [lens : SeqsUpTo(0..MaxLen, MaxSeqs), index : Indices]
    /\ ret = Pending
    /\ od = Idle /\ hist = Idle /\ last = Idle /\ ll = Idle /\ im = Idle /\ md = Idle

CSGetItem ==
    /\ ret = Pending
    /\ LET self == CombinedSequence__init__(Numbered(call.lens, 0))
       IN  ret' = Done([at |-> CombinedSequence_at_index(self, call.index),
                        item |-> CombinedSequence__getitem__(self, call.index)])
    /\ UNCHANGED <<od, hist, last, call, ll, im, md>>

SpecCS == InitCS /\ [][CSGetItem]_vars

\* The position in the flattened content that at_index's answer points at.
FlatPosition(seqs, at) ==
    LET local == IF at.index >= 0 THEN at.index ELSE Len(seqs[at.sequence]) + at.index
    IN  Len(Flatten(SubSeq(seqs, 1, at.sequence - 1))) + local

\* C3: for the flattened content F and every integer index i with
\* -len(F) <= i < len(F), at_index(i) resolves to the constituent and local
\* offset holding F[i] and view[i] == F[i]; any other index raises IndexError.
C3_IndexResolution ==
    ret # Pending =>
        LET seqs == Numbered(call.lens, 0)
            F == Flatten(seqs)
            i == call.index
            want == IF i >= 0 THEN i ELSE Len(F) + i
        IN  IF (0 - Len(F)) <= i /\ i < Len(F)
            THEN /\ ret[1].at.exc = NoExc
                 /\ FlatPosition(seqs, ret[1].at.ret) = want
                 /\ ret[1].item.exc = NoExc
                 /\ ret[1].item.ret = F[want + 1]
            ELSE /\ ret[1].at.exc = "IndexError"
                 /\ ret[1].item.exc = "IndexError"

\* ---------------------------------------------------------------- OrderedSet
\* OrderedDict.fromkeys(iterable): every key bound to None.
OrderedDict_fromkeys(cls, iterable) ==
    OrderedDict__init__(cls, [i \in 1..Len(iterable) |-> <<iterable[i], None>>], <<>>)

OrderedSet__init__(iterable) == [orderedmap |-> OrderedDict_fromkeys("OrderedDict", iterable)]

OrderedSet__len__(self) == Cardinality(DOMAIN self.orderedmap.data)

OrderedSet__contains__(self, element) == element \in DOMAIN self.orderedmap.data

OrderedSet__iter__(self) == OrderedDict__iter__(self.orderedmap)

\* A mutant of add: an element the set holds already is linked anew, last.
OrderedSet_add_relink(self, element) ==
    [self EXCEPT !.orderedmap = OrderedDict__setitem__relink(self.orderedmap, element, None)]

OrderedSet_add(self, element) ==
    [self EXCEPT !.orderedmap = OrderedDict__setitem__(self.orderedmap, element, None)]

OrderedSet_clear(self) == [self EXCEPT !.orderedmap = OrderedDict_clear(self.orderedmap).self]

RECURSIVE AddAll(_, _)
AddAll(self, elements) ==
    IF elements = <<>> THEN self
    ELSE AddAll(OrderedSet_add(self, Head(elements)), Tail(elements))

\* update(other): one other, given by the elements it yields.
OrderedSet_update(self, other) == AddAll(self, other)

\* min([a, b], key=len) and max([a, b], key=len): the first of the smallest,
\* the first of the largest.
MinByLen(a, b) == IF OrderedSet__len__(b) < OrderedSet__len__(a) THEN b ELSE a
MaxByLen(a, b) == IF OrderedSet__len__(b) > OrderedSet__len__(a) THEN b ELSE a

intersect(a, b) ==
    LET smallest == MinByLen(a, b)
        largest == OrderedSet__iter__(MaxByLen(a, b))
    IN  AddAll(OrderedSet__init__(<<>>),
               SelectSeq(largest, LAMBDA element : OrderedSet__contains__(smallest, element)))

\* reduce(intersect, others, self)
RECURSIVE Reduce(_, _)
Reduce(acc, others) ==
    IF others = <<>> THEN acc ELSE Reduce(intersect(acc, Head(others)), Tail(others))

OrderedSet_intersection(self, others) == Reduce(self, others)

OrderedSet__and__(self, other) == OrderedSet_intersection(self, <<other>>)

OrderedSet__iand__(self, other) ==
    LET intersection == OrderedSet_intersection(self, <<other>>)
    IN  OrderedSet_update(OrderedSet_clear(self), OrderedSet__iter__(intersection))

\* ---------------------------------------------------------------- SpecOS
\* a & b and a &= b for two OrderedSets built from sequences of elements.
InitOS ==
    /\ call \in [a : SeqsUpTo(Keys, MaxElems), b : SeqsUpTo(Keys, MaxElems)]
    /\ ret = Pending
    /\ od = Idle /\ hist = Idle /\ last = Idle /\ ll = Idle /\ im = Idle /\ md = Idle

OSIntersection ==
    /\ ret = Pending
    /\ LET a == OrderedSet__init__(call.a)
           b == OrderedSet__init__(call.b)
       IN  ret' = Done([and |-> OrderedSet__iter__(OrderedSet__and__(a, b)),
                        iand |-> OrderedSet__iter__(OrderedSet__iand__(a, b))])
    /\ UNCHANGED <<od, hist, last, call, ll, im, md>>

SpecOS == InitOS /\ [][OSIntersection]_vars

\* The elements of xs that are in ys, in the order of xs.
Common(xs, ys) == SelectSeq(unique(xs), LAMBDA e : e \in Range(ys))

IntersectionOf(result, a, b) ==
    /\ Range(result) = Range(a) \cap Range(b)
    /\ \/ Cardinality(Range(a)) >= Cardinality(Range(b)) /\ result = Common(a, b)
       \/ Cardinality(Range(b)) >= Cardinality(Range(a)) /\ result = Common(b, a)

\* C4: a.intersection(b) (and a & b, a &= b) holds exactly the elements that
\* are members of both a and b, in the relative order of the larger operand,
\* for every pair of operands including equal-length and disjoint ones.
C4_Intersection ==
    ret # Pending =>
        /\ IntersectionOf(ret[1].and, call.a, call.b)
        /\ IntersectionOf(ret[1].iand, call.a, call.b)

\* ---------------------------------------------------------------- LazyList
\* The internal iterator: the items a finite source has yet to yield
\* (pending), then either the end of the source or itertools.count() at n.
Iterator(pending, tail) == [pending |-> pending, tail |-> tail, n |-> 0]

HasNext(it) == it.pending # <<>> \/ it.tail = "count"

NextItem(it) == IF it.pending # <<>> THEN Head(it.pending) ELSE it.n

Advance(it) ==
    IF it.pending # <<>> THEN [it EXCEPT !.pending = Tail(it.pending)]
    ELSE [it EXCEPT !.n = it.n + 1]

\* LazyList(iterable): a list is taken over whole, any other iterable lazily.
LazyList__init__(source) ==
    IF source.kind = "list"
    THEN [exhausted |-> TRUE, collected |-> source.items, iterator |-> Iterator(<<>>, "end")]
    ELSE [exhausted |-> FALSE, collected |-> <<>>,
          iterator |-> Iterator(source.items, IF source.kind = "count" THEN "count" ELSE "end")]

LazyList_known_length(self) == Len(self.collected)

\* The for loop of _exhaust over an index range of `times` indices.
RECURSIVE Pull(_, _)
Pull(self, times) ==
    IF times <= 0 THEN self
    ELSE IF HasNext(self.iterator)
    THEN Pull([self EXCEPT !.collected = Append(self.collected, NextItem(self.iterator)),
                           !.iterator = Advance(self.iterator)], times - 1)
    ELSE [self EXCEPT !.exhausted = TRUE]

\* A mutant of _exhaust: the index range starts at 0, not at known_length.
LazyList_exhaust_from_zero(self, i) ==
    IF self.exhausted THEN self
    ELSE IF i = <<>> \/ i[1] < 0 THEN Pull(self, Len(self.iterator.pending) + 1)
    ELSE Pull(self, i[1] + 1)

\* _exhaust(i): i is <<>> for None. count(known_length) ends only with the
\* source, which takes one step more than the source has items; on
\* itertools.count() it never ends, so no action calls it there.
LazyList_exhaust(self, i) ==
    IF self.exhausted THEN self
    ELSE IF i = <<>> \/ i[1] < 0 THEN Pull(self, Len(self.iterator.pending) + 1)
    ELSE Pull(self, i[1] + 1 - LazyList_known_length(self))

\* Whether _exhaust(i) returns.
Terminates(self, i) ==
    self.exhausted \/ self.iterator.tail = "end" \/ (i # <<>> /\ i[1] >= 0)

LazyList__getitem__(self, i) ==
    LET s == LazyList_exhaust(self, <<i>>)
        g == ListGet(s.collected, i)
    IN  IF g.exc # NoExc THEN Raise(s, g.exc) ELSE Ok(s, g.ret)

LazyList__setitem__(self, i, obj) ==
    LET s == LazyList_exhaust(self, <<i>>)
        g == ListGet(s.collected, i)
        at == IF i >= 0 THEN i + 1 ELSE Len(s.collected) + i + 1
    IN  IF g.exc # NoExc THEN Raise(s, g.exc)
        ELSE Ok([s EXCEPT !.collected[at] = obj], None)

LazyList__delitem__(self, i) ==
    LET s == LazyList_exhaust(self, <<i>>)
        g == ListGet(s.collected, i)
        at == IF i >= 0 THEN i + 1 ELSE Len(s.collected) + i + 1
    IN  IF g.exc # NoExc THEN Raise(s, g.exc)
        ELSE Ok([s EXCEPT !.collected = SubSeq(s.collected, 1, at - 1)
                                        \o SubSeq(s.collected, at + 1, Len(s.collected))], None)

\* list.insert clamps the index to the list's ends.
LazyList_insert(self, index, object) ==
    LET s == LazyList_exhaust(self, <<index>>)
        n == Len(s.collected)
        at == IF index >= 0 THEN Min(index, n) ELSE Max(n + index, 0)
    IN  Ok([s EXCEPT !.collected = SubSeq(s.collected, 1, at) \o <<object>>
                                    \o SubSeq(s.collected, at + 1, n)], None)

\* A mutant of extend: the objects are chained onto the iterator even when
\* the list is exhausted.
LazyList_extend_chain(self, objects) ==
    IF self.iterator.tail = "count" THEN Ok(self, None)
    ELSE Ok([self EXCEPT !.iterator.pending = self.iterator.pending \o objects], None)

LazyList_extend(self, objects) ==
    IF self.exhausted THEN Ok([self EXCEPT !.collected = self.collected \o objects], None)
    ELSE IF self.iterator.tail = "count" THEN Ok(self, None)
    ELSE Ok([self EXCEPT !.iterator.pending = self.iterator.pending \o objects], None)

\* A mutant of append: the source is read to its end first.
LazyList_append_exhausting(self, object) ==
    LET s == LazyList_exhaust(self, <<>>)
    IN  IF s.exhausted THEN Ok([s EXCEPT !.collected = Append(s.collected, object)], None)
        ELSE Ok(s, None)

LazyList_append(self, object) == LazyList_extend(self, <<object>>)

LazyList__nonzero__(self) ==
    LET s == LazyList_exhaust(self, <<0>>)
    IN  Ok(s, s.collected # <<>>)

\* ---------------------------------------------------------------- SpecLL
\* One LazyList under reads and in-place changes. last describes the latest
\* call: the index read, the known length, the exhausted flag and the number
\* of items the source still had before it, and the number of items it took.
MaxKnown == MaxIndex + 1

LLSources ==
    [kind : {"list", "iter"}, items : {[i \in 1..n |-> i] : n \in 0..MaxSrc}]
        \cup {[kind |-> "count", items |-> <<>>]}

NoRead == [op |-> "other", i |-> 0, k0 |-> 0, exh0 |-> FALSE, avail0 |-> 0, pulled |-> 0,
           exc |-> NoExc]

\* The number of items the source has yet to yield; -1 when it has no end.
Available(self) == IF self.iterator.tail = "count" THEN -1 ELSE Len(self.iterator.pending)

\* The number of items taken from the source between two states of a list.
Pulled(before, after) ==
    (Len(before.iterator.pending) - Len(after.iterator.pending))
        + (after.iterator.n - before.iterator.n)

InitLL ==
    /\ ll \in {LazyList__init__(source) : source \in LLSources}
    /\ last = NoRead
    /\ od = Idle /\ hist = Idle /\ call = Idle /\ ret = Idle /\ im = Idle /\ md = Idle

StepLL(r, l) ==
    /\ Len(r.self.collected) + Len(r.self.iterator.pending) <= MaxKnown
    /\ r.self.iterator.n <= MaxKnown
    /\ ll' = r.self
    /\ last' = l
    /\ UNCHANGED <<od, hist, call, ret, im, md>>

LLGetItem ==
    \E i \in -1..MaxIndex :
        /\ Terminates(ll, <<i>>)
        /\ LET r == LazyList__getitem__(ll, i)
           IN  StepLL(r, [op |-> "__getitem__", i |-> i, k0 |-> LazyList_known_length(ll),
                          exh0 |-> ll.exhausted, avail0 |-> Available(ll),
                          pulled |-> Pulled(ll, r.self), exc |-> r.exc])

LLSetItem == \E i \in 0..MaxEdit : StepLL(LazyList__setitem__(ll, i, None), NoRead)

LLDelItem ==
    \E i \in -1..MaxEdit :
        Terminates(ll, <<i>>) /\ StepLL(LazyList__delitem__(ll, i), NoRead)

LLInsert == \E i \in 0..MaxEdit : StepLL(LazyList_insert(ll, i, None), NoRead)

LLAppend == StepLL(LazyList_append(ll, None), NoRead)

LLNonzero == StepLL(LazyList__nonzero__(ll), NoRead)

NextLL ==
    \/ LLGetItem
    \/ LLSetItem
    \/ LLDelItem
    \/ LLInsert
    \/ LLAppend
    \/ LLNonzero

SpecLL == InitLL /\ [][NextLL]_vars

\* C5: reading a non-negative index i from a LazyList that is not exhausted
\* and has known length k takes exactly max(0, i + 1 - k) items from the
\* source, fewer only when the source ends first, which sets exhausted; over
\* an unbounded source the read does not raise and leaves exhausted false and
\* the known length max(k, i + 1).
C5_ReadPullsMinimum ==
    (last.op = "__getitem__" /\ last.i >= 0 /\ ~last.exh0) =>
        LET need == Max(0, last.i + 1 - last.k0)
        IN  IF last.avail0 = -1 \/ need <= last.avail0
            THEN /\ last.pulled = need
                 /\ ~ll.exhausted
                 /\ last.exc = NoExc
                 /\ LazyList_known_length(ll) = Max(last.k0, last.i + 1)
            ELSE /\ last.pulled = last.avail0
                 /\ ll.exhausted

C5_Witness ==
    /\ last.op = "__getitem__" /\ last.i = 5 /\ last.k0 = 0
    /\ last.avail0 = -1 /\ last.pulled = 6 /\ last.exc = NoExc
    /\ ll.collected = <<0, 1, 2, 3, 4, 5>>
    /\ ~ll.exhausted

\* ---------------------------------------------------------------- SpecLLCmp
\* LazyList defines no __iter__: iteration reads self[0], self[1], ... until
\* IndexError.
RECURSIVE IterFrom(_, _)
IterFrom(self, i) ==
    LET r == LazyList__getitem__(self, i)
    IN  IF r.exc # NoExc THEN <<>> ELSE <<r.ret>> \o IterFrom(r.self, i + 1)

\* An operand of a comparison is a LazyList or a plain list (here the
\* record [list |-> items]).
IsLazy(x) == "exhausted" \in DOMAIN x

Truth(x) == IF IsLazy(x) THEN LazyList__nonzero__(x).ret ELSE x.list # <<>>

Iterate(x) == IF IsLazy(x) THEN IterFrom(x, 0) ELSE x.list

\* brownie.itools.izip_longest: pairs up to the longer operand, the shorter
\* one filled up. An item is <<v>>, the fill value is <<>>.
izip_longest(xs, ys) ==
    [i \in 1..Max(Len(xs), Len(ys)) |->
        <<IF i <= Len(xs) THEN <<xs[i]>> ELSE <<>>, IF i <= Len(ys) THEN <<ys[i]>> ELSE <<>>>>]

\* a < b. Between an integer and the fill value (a bare object()) the order
\* is the interpreter's choice: numbersFirst says whether integers sort first.
Less(a, b, numbersFirst) ==
    IF a # <<>> /\ b # <<>> THEN a[1] < b[1]
    ELSE IF a # <<>> THEN numbersFirst
    ELSE IF b # <<>> THEN ~numbersFirst
    ELSE FALSE

\* The for loop of __lt__; falling off its end returns None.
RECURSIVE LtLoop(_, _, _)
LtLoop(zs, i, numbersFirst) ==
    IF i > Len(zs) THEN "None"
    ELSE LET a == zs[i][1]
             b == zs[i][2]
         IN  IF Less(a, b, numbersFirst) THEN "True"
             ELSE IF a = b THEN LtLoop(zs, i + 1, numbersFirst)
             ELSE IF a = <<>> /\ b # <<>> THEN "True"
             ELSE "False"

LazyList__lt__(self, other, numbersFirst) ==
    IF ~Truth(self) /\ Truth(other) THEN "True"
    ELSE IF Truth(self) /\ ~Truth(other) THEN "False"
    ELSE IF ~Truth(self) /\ ~Truth(other) THEN "False"
    ELSE LtLoop(izip_longest(Iterate(self), Iterate(other)), 1, numbersFirst)

\* not x, for x one of True, False, None
Not(x) == IF x = "True" THEN "False" ELSE "True"

LazyList__gt__(self, other, numbersFirst) ==
    IF ~Truth(self) /\ ~Truth(other) THEN "False"
    ELSE Not(LazyList__lt__(self, other, numbersFirst))

Operand(kind, items) ==
    IF kind = "plain" THEN [list |-> items]
    ELSE LazyList__init__([kind |-> kind, items |-> items])

InitLLCmp ==
    /\ call \in [a : SeqsUpTo(Values, MaxCmp), akind : {"list", "iter"},
                  b : SeqsUpTo(Values, MaxCmp), bkind : {"plain", "list", "iter"},
                  numbersFirst : BOOLEAN]
    /\ ret = Pending
    /\ od = Idle /\ hist = Idle /\ last = Idle /\ ll = Idle /\ im = Idle /\ md = Idle

LLCompare ==
    /\ ret = Pending
    /\ LET a == Operand(call.akind, call.a)
           b == Operand(call.bkind, call.b)
       IN  ret' = Done([lt |-> LazyList__lt__(a, b, call.numbersFirst),
                        gt |-> LazyList__gt__(a, b, call.numbersFirst)])
    /\ UNCHANGED <<od, hist, last, call, ll, im, md>>

SpecLLCmp == InitLLCmp /\ [][LLCompare]_vars

\* C6: for a LazyList a and a LazyList or list b with equal contents,
\* including equal non-empty contents, neither a < b nor a > b is true.
C6_EqualNeitherLessNorGreater ==
    (ret # Pending /\ call.a = call.b) => (ret[1].lt # "True" /\ ret[1].gt # "True")

\* ---------------------------------------------------------------- method calls
\* obj.<name>(...) on a mapping: the method found along the MRO of the
\* object's class, applied to the arguments a.
NoArgs ==
    [key |-> 1, value |-> 1, default |-> missing, values |-> <<>>, lastFlag |-> TRUE,
     choice |-> 1, source |-> NoSource, kw |-> <<>>]

PairsOf(source) == IF source.kind = "pairs" THEN source.items ELSE <<>>

dictCall(self, name, a) ==
    CASE name = "__setitem__" -> Ok(dict__setitem__(self, a.key, a.value), None)
      [] name = "__delitem__" -> dict__delitem__(self, a.key)
      [] name = "setdefault" -> dict_setdefault(self, a.key, a.value)
      [] name = "update" -> dict_update(self, PairsOf(a.source), a.kw)
      [] name = "pop" -> dict_pop(self, a.key, a.default)
      [] name = "popitem" -> dict_popitem(self, a.choice)
      [] OTHER -> dict_clear(self)

OrderedDictCall(self, name, a) ==
    CASE name = "__setitem__" -> Ok(OrderedDict__setitem__(self, a.key, a.value), None)
      [] name = "__delitem__" -> OrderedDict__delitem__(self, a.key)
      [] name = "setdefault" -> OrderedDict_setdefault(self, a.key, a.value)
      [] name = "update" -> OrderedDict_update(self, PairsOf(a.source), a.kw)
      [] name = "pop" -> OrderedDict_pop(self, a.key, a.default)
      [] name = "popitem" -> OrderedDict_popitem(self, a.lastFlag)
      [] name = "move_to_end" -> OrderedDict_move_to_end(self, a.key, a.lastFlag)
      [] OTHER -> OrderedDict_clear(self)

MultiDictMixinCall(self, name, a) ==
    CASE name = "__setitem__" -> MultiDictMixin__setitem__(self, a.key, a.value)
      [] name = "setdefault" -> MultiDictMixin_setdefault(self, a.key, a.value)
      [] name = "update" -> MultiDictMixin_update(self, a.source, a.kw)
      [] name = "pop" -> MultiDictMixin_pop(self, a.key, a.default)
      [] name = "popitem" -> MultiDictMixin_popitem(self, a.lastFlag, a.choice)
      [] name = "add" -> MultiDictMixin_add(self, a.key, a.value)
      [] name = "setlist" -> MultiDictMixin_setlist(self, a.key, a.values)
      [] name = "setlistdefault" -> MultiDictMixin_setlistdefault(self, a.key, a.values)
      [] name = "poplist" -> MultiDictMixin_poplist(self, a.key)
      [] OTHER -> MultiDictMixin_popitemlist(self, a.choice)

Invoke(self, name, a) ==
    LET c == Resolve(self.cls, name)
    IN  CASE c = "ImmutableDictMixin" -> raise_immutable(self)
          [] c = "ImmutableOrderedDict" -> raise_immutable(self)
          [] c = "ImmutableMultiDictMixin" -> call_raise_immutable(self)
          [] c = "MultiDictMixin" -> MultiDictMixinCall(self, name, a)
          [] c = "OrderedDict" -> OrderedDictCall(self, name, a)
          [] c = "dict" -> dictCall(self, name, a)
          [] OTHER -> Raise(self, "AttributeError")

\* cls(source): the __init__ found along the MRO of cls. A combined view is
\* built over the list of dicts it is given.
Construct(cls, source) ==
    LET c == Resolve(cls, "__init__")
    IN  CASE c = "MultiDictMixin" -> MultiDictMixin__init__(cls, source, <<>>)
          [] c = "OrderedDict" -> OrderedDict__init__(cls, PairsOf(source), <<>>)
          [] c = "CombinedDictMixin" -> CombinedDictMixin__init__(cls, source.dicts)
          [] OTHER -> dict__init__(cls, PairsOf(source), <<>>)

PairSource(ps) == [kind |-> "pairs", items |-> ps]

\* ---------------------------------------------------------------- SpecIM
\* One immutable mapping under every mutating method its class offers. last
\* holds the latest call, the exception it raised and the object before it.
ImmutableClasses ==
    {"ImmutableDict", "ImmutableMultiDict", "ImmutableOrderedDict",
     "ImmutableOrderedMultiDict", "CombinedDict", "CombinedMultiDict"}

\* CombinedDict over a dict and an OrderedDict, CombinedMultiDict over a
\* MultiDict and an OrderedMultiDict, the second holding the pairs reversed.
Reversed(ps) == [i \in 1..Len(ps) |-> ps[Len(ps) + 1 - i]]

ConstituentsOf(cls, ps) ==
    IF cls = "CombinedDict"
    THEN <<Construct("dict", PairSource(ps)), Construct("OrderedDict", PairSource(Reversed(ps)))>>
    ELSE <<Construct("MultiDict", PairSource(ps)),
           Construct("OrderedMultiDict", PairSource(Reversed(ps)))>>

ImmutableOf(cls, ps) ==
    IF cls \in {"CombinedDict", "CombinedMultiDict"}
    THEN Construct(cls, [kind |-> "dicts", dicts |-> ConstituentsOf(cls, ps)])
    ELSE Construct(cls, PairSource(ps))

InitIM ==
    /\ im \in {ImmutableOf(cls, ps) : cls \in ImmutableClasses, ps \in Sources(MaxPairs)}
    /\ last = [op |-> "none", exc |-> NoExc, before |-> im]
    /\ od = Idle /\ hist = Idle /\ call = Idle /\ ret = Idle /\ ll = Idle /\ md = Idle

StepIM(name, a) ==
    /\ Resolve(im.cls, name) # "object"
    /\ LET r == Invoke(im, name, a)
       IN  /\ im' = r.self
           /\ last' = [op |-> name, exc |-> r.exc, before |-> im]
    /\ UNCHANGED <<od, hist, call, ret, ll, md>>

IMSetItem ==
    \E k \in Keys, v \in Values : StepIM("__setitem__", [NoArgs EXCEPT !.key = k, !.value = v])

IMDelItem == \E k \in Keys : StepIM("__delitem__", [NoArgs EXCEPT !.key = k])

IMSetDefault ==
    \E k \in Keys, v \in Values : StepIM("setdefault", [NoArgs EXCEPT !.key = k, !.value = v])

IMUpdate ==
    \E ps \in Sources(MaxPairs) : StepIM("update", [NoArgs EXCEPT !.source = PairSource(ps)])

IMPop ==
    \E k \in Keys, d \in {missing} \cup {Given(v) : v \in Values} :
        StepIM("pop", [NoArgs EXCEPT !.key = k, !.default = d])

IMPopItem ==
    \E f \in BOOLEAN, k \in Keys : StepIM("popitem", [NoArgs EXCEPT !.lastFlag = f, !.choice = k])

IMClear == StepIM("clear", NoArgs)

IMMoveToEnd ==
    \E k \in Keys, f \in BOOLEAN :
        StepIM("move_to_end", [NoArgs EXCEPT !.key = k, !.lastFlag = f])

IMAdd == \E k \in Keys, v \in Values : StepIM("add", [NoArgs EXCEPT !.key = k, !.value = v])

IMSetList ==
    \E k \in Keys, vs \in SeqsUpTo(Values, MaxKw) :
        StepIM("setlist", [NoArgs EXCEPT !.key = k, !.values = vs])

IMSetListDefault ==
    \E k \in Keys, vs \in SeqsUpTo(Values, MaxKw) :
        StepIM("setlistdefault", [NoArgs EXCEPT !.key = k, !.values = vs])

IMPopList == \E k \in Keys : StepIM("poplist", [NoArgs EXCEPT !.key = k])

IMPopItemList == \E k \in Keys : StepIM("popitemlist", [NoArgs EXCEPT !.choice = k])

NextIM ==
    \/ IMSetItem
    \/ IMDelItem
    \/ IMSetDefault
    \/ IMUpdate
    \/ IMPop
    \/ IMPopItem
    \/ IMClear
    \/ IMMoveToEnd
    \/ IMAdd
    \/ IMSetList
    \/ IMSetListDefault
    \/ IMPopList
    \/ IMPopItemList

SpecIM == InitIM /\ [][NextIM]_vars

\* C7: on every immutable mapping variant every mutating operation fails with
\* the Immutable failure (raise_immutable's TypeError, which names the type)
\* and leaves the mapping exactly as it was before the call.
C7_ImmutableRejects ==
    last.op # "none" => (last.exc = Immutable /\ im = last.before)

\* ---------------------------------------------------------------- SpecMDInit
\* MultiDict(pairs) and OrderedMultiDict(pairs) and what the mapping then
\* answers. The i-th pair carries the value i, so a value names its pair.
MultiClasses == {"MultiDict", "OrderedMultiDict"}

Positioned(ks) == [i \in 1..Len(ks) |-> <<ks[i], i>>]

InitMDInit ==
    /\ call \in [cls : MultiClasses, pairs : {Positioned(ks) : ks \in SeqsUpTo(Keys, MaxInit)}]
    /\ ret = Pending
    /\ od = Idle /\ hist = Idle /\ last = Idle /\ ll = Idle /\ im = Idle /\ md = Idle

MDConstruct ==
    /\ ret = Pending
    /\ LET m == Construct(call.cls, PairSource(call.pairs))
       IN  ret' = Done([getlist |-> [k \in Keys |-> MultiDictMixin_getlist(m, k)],
                        get |-> [k \in Keys |-> MultiDictMixin_get(m, k, None).ret],
                        getitem |-> [k \in Keys |-> MultiDictMixin__getitem__(m, k)],
                        items |-> MultiDictMixin_iteritems(m, FALSE),
                        multi |-> MultiDictMixin_iteritems(m, TRUE)])
    /\ UNCHANGED <<od, hist, last, call, ll, im, md>>

SpecMDInit == InitMDInit /\ [][MDConstruct]_vars

\* The values paired with key k, in the order of the pairs.
PairedWith(k) ==
    SelectSeq([i \in 1..Len(call.pairs) |-> i], LAMBDA i : call.pairs[i][1] = k)

\* C8: a multi-value mapping built from (key, value) pairs groups the values
\* by key: getlist(k) is the values paired with k in their original order,
\* get(k) and m[k] give the first of them (None and KeyError when there is
\* none), and primary iteration yields one (k, first value) item per distinct
\* key, for OrderedMultiDict in first-seen key order.
C8_GroupedByKey ==
    ret # Pending =>
        LET r == ret[1]
            present == {call.pairs[i][1] : i \in 1..Len(call.pairs)}
        IN  /\ \A k \in Keys : r.getlist[k] = PairedWith(k)
            /\ \A k \in present :
                   /\ r.get[k] = PairedWith(k)[1]
                   /\ r.getitem[k].exc = NoExc /\ r.getitem[k].ret = PairedWith(k)[1]
            /\ \A k \in Keys \ present : r.get[k] = None /\ r.getitem[k].exc = "KeyError"
            /\ Len(r.items) = Cardinality(present)
            /\ Range(r.items) = {<<k, PairedWith(k)[1]>> : k \in present}
            /\ call.cls = "OrderedMultiDict" =>
                   \A i, j \in 1..Len(r.items) :
                       i < j => PairedWith(r.items[i][1])[1] < PairedWith(r.items[j][1])[1]

C8_Witness ==
    /\ ret # Pending
    /\ call.cls = "OrderedMultiDict"
    /\ call.pairs = <<(<<1, 1>>), <<2, 2>>, <<1, 3>>>>
    /\ ret[1].getlist[1] = <<1, 3>>
    /\ ret[1].get[1] = 1
    /\ ret[1].items = <<(<<1, 1>>), <<2, 2>>>>

\* C9 as stated: multi iteration yields the pairs in the order in which they
\* were supplied.
C9_SuppliedOrder ==
    ret # Pending => ret[1].multi = call.pairs

\* C9, amended: multi iteration yields one item per stored value grouped by
\* key: the keys in the order of primary iteration, and under each key its
\* values in the order in which they were supplied.
C9_GroupedOrder ==
    ret # Pending =>
        LET r == ret[1]
        IN  /\ r.multi = Flatten([i \in 1..Len(r.items) |->
                             LET k == r.items[i][1]
                             IN  [j \in 1..Len(PairedWith(k)) |-> <<k, PairedWith(k)[j]>>]])
            /\ Len(r.multi) = Len(call.pairs)
            /\ Range(r.multi) = Range(call.pairs)

C9_Witness ==
    /\ ret # Pending
    /\ call.cls = "OrderedMultiDict"
    /\ call.pairs = <<(<<1, 1>>), <<2, 2>>, <<1, 3>>>>
    /\ ret[1].multi = <<(<<1, 1>>), <<1, 3>>, <<2, 2>>>>

\* ---------------------------------------------------------------- SpecMD
\* One mutable multi-value mapping under add, item assignment, poplist and
\* update from every kind of source. After an update from a multi-value
\* mapping last holds the lists of md before the call, the lists of the
\* source, and the pairs iter_multi_items yielded for the source.
Lists(m) == [k \in Keys |-> MultiDictMixin_getlist(m, k)]

Stored(m) == Len(MultiDictMixin_iteritems(m, TRUE))

NoUpdate == [op |-> "other", before |-> Lists(New("MultiDict")),
             source |-> Lists(New("MultiDict")), yielded |-> <<>>]

MultiSources == {Construct(cls, PairSource(ps)) : cls \in MultiClasses, ps \in Sources(MaxPairs)}

\* Plain dicts with one key, bound to a scalar or to a list.
DictSources ==
    {<<>>} \cup {<<[key |-> k, list |-> FALSE, values |-> <<v>>]>> : k \in Keys, v \in Values}
           \cup {<<[key |-> k, list |-> TRUE, values |-> vs]>> :
                     k \in Keys, vs \in SeqsUpTo(Values, MaxPairs)}

InitMD ==
    /\ md \in {Construct(cls, NoSource) : cls \in MultiClasses}
    /\ last = NoUpdate
    /\ od = Idle /\ hist = Idle /\ call = Idle /\ ret = Idle /\ ll = Idle /\ im = Idle

StepMD(r, l) ==
    /\ Stored(r.self) <= MaxStored
    /\ md' = r.self
    /\ last' = l
    /\ UNCHANGED <<od, hist, call, ret, ll, im>>

MDAdd ==
    \E k \in Keys, v \in Values :
        StepMD(Invoke(md, "add", [NoArgs EXCEPT !.key = k, !.value = v]), NoUpdate)

MDSetItem ==
    \E k \in Keys, v \in Values :
        StepMD(Invoke(md, "__setitem__", [NoArgs EXCEPT !.key = k, !.value = v]), NoUpdate)

MDPopList ==
    \E k \in Keys : StepMD(Invoke(md, "poplist", [NoArgs EXCEPT !.key = k]), NoUpdate)

MDUpdatePairs ==
    \E ps \in Sources(MaxPairs) :
        StepMD(Invoke(md, "update", [NoArgs EXCEPT !.source = PairSource(ps)]), NoUpdate)

MDUpdateDict ==
    \E d \in DictSources :
        StepMD(Invoke(md, "update", [NoArgs EXCEPT !.source = [kind |-> "dict", items |-> d]]),
               NoUpdate)

MDUpdateKw ==
    \E kw \in Sources(MaxKw) :
        StepMD(Invoke(md, "update", [NoArgs EXCEPT !.kw = kw]), NoUpdate)

MDUpdateMulti ==
    \E src \in MultiSources :
        LET source == [kind |-> "multi", obj |-> src]
        IN  StepMD(Invoke(md, "update", [NoArgs EXCEPT !.source = source]),
                   [op |-> "update", before |-> Lists(md), source |-> Lists(src),
                    yielded |-> iter_multi_items(source)])

NextMD ==
    \/ MDAdd
    \/ MDSetItem
    \/ MDPopList
    \/ MDUpdatePairs
    \/ MDUpdateDict
    \/ MDUpdateKw
    \/ MDUpdateMulti

SpecMD == InitMD /\ [][NextMD]_vars

\* C10: iter_multi_items on a multi-value mapping yields one (key, value)
\* pair for every stored value, and after m.update(source) with a multi-value
\* mapping source m.getlist(k) is, for every key k, m's previous list for k
\* followed by all of source.getlist(k).
C10_UpdateAppendsAll ==
    last.op = "update" =>
        /\ \A k \in Keys :
               SelectSeq(last.yielded, LAMBDA p : p[1] = k)
                   = [j \in 1..Len(last.source[k]) |-> <<k, last.source[k][j]>>]
        /\ \A k \in Keys : MultiDictMixin_getlist(md, k) = last.before[k] \o last.source[k]

\* ---------------------------------------------------------------- SpecAL
\* List objects. A mapping of the model holds list values; which list OBJECT
\* a caller holds after getlist or setlist is kept apart, in ret:
\*     [stored |-> TRUE, key |-> k, items |-> l]   the very list the mapping
\*                                                 stores under k,
\*     [stored |-> FALSE, key |-> k, items |-> l]  a list of the caller's that
\*                                                 the mapping does not hold.
\* getlist returns what the base class's __getitem__ returns, the stored list,
\* and a new empty list when the key is absent.
GetListObject(self, key) ==
    [stored |-> key \in DOMAIN self.data, key |-> key,
     items |-> MultiDictMixin_getlist(self, key)]

\* setlist stores list(values), a new list: the caller keeps `values`.
SetListObject(self, key, values) == [stored |-> FALSE, key |-> key, items |-> values]

\* held.append(value): the list grows, and with it the mapping's entry when
\* the list is the stored one.
ListAppend(self, held, value) ==
    [self |-> IF held.stored THEN [self EXCEPT !.data[held.key] = Append(@, value)] ELSE self,
     held |-> [held EXCEPT !.items = Append(@, value)]]

AllMultiClasses ==
    {"MultiDict", "OrderedMultiDict", "ImmutableMultiDict", "ImmutableOrderedMultiDict"}

NoList == [stored |-> FALSE, key |-> 1, items |-> <<>>]

InitAL ==
    /\ md \in {Construct(cls, PairSource(ps)) : cls \in AllMultiClasses, ps \in Sources(MaxHeld)}
    /\ ret = NoList
    /\ last = [op |-> "none", key |-> 1, before |-> <<>>]
    /\ od = Idle /\ hist = Idle /\ call = Idle /\ ll = Idle /\ im = Idle

ALGetList ==
    \E k \in Keys :
        /\ ret' = GetListObject(md, k)
        /\ last' = [op |-> "getlist", key |-> k, before |-> MultiDictMixin_getlist(md, k)]
        /\ UNCHANGED <<od, hist, call, ll, im, md>>

\* The lists setlist is called with: ValueAt(1), ..., ValueAt(n).
GivenLists == {[i \in 1..n |-> ValueAt(i)] : n \in 0..MaxPairs}

ALSetList ==
    \E k \in Keys, vs \in GivenLists :
        LET r == Invoke(md, "setlist", [NoArgs EXCEPT !.key = k, !.values = vs])
        IN  /\ Stored(r.self) <= MaxHeld
            /\ md' = r.self
            /\ ret' = SetListObject(md, k, vs)
            /\ last' = [op |-> "setlist", key |-> k, before |-> MultiDictMixin_getlist(md, k)]
            /\ UNCHANGED <<od, hist, call, ll, im>>

\* The caller appends to the list it got from, or passed to, the latest call.
ALAppend ==
    /\ last.op \in {"getlist", "setlist"}
    /\ LET r == ListAppend(md, ret, None)
       IN  /\ Stored(r.self) <= MaxHeld
           /\ Len(r.held.items) <= MaxHeld
           /\ md' = r.self
           /\ ret' = r.held
           /\ last' = [op |-> "append", key |-> ret.key,
                       before |-> MultiDictMixin_getlist(md, ret.key)]
    /\ UNCHANGED <<od, hist, call, ll, im>>

NextAL ==
    \/ ALGetList
    \/ ALSetList
    \/ ALAppend

SpecAL == InitAL /\ [][NextAL]_vars

\* C11: getlist(k) returns a copy of the stored list and setlist(k, values)
\* stores a copy of the given list: appending to the list getlist returned, or
\* to the list that was passed to setlist, leaves what the mapping (mutable or
\* immutable) reports for k unchanged.
C11_ListsAreCopies ==
    last.op = "append" => MultiDictMixin_getlist(md, last.key) = last.before

\* ---------------------------------------------------------------- SpecMV
\* One mutable multi-value mapping, built from a sequence of pairs or from a
\* plain dict, under item assignment, add, setlist, setlistdefault,
\* setdefault, update, pop, poplist and popitem. last holds the latest call
\* and the exception it raised.
InitMV ==
    /\ md \in {Construct(cls, PairSource(ps)) : cls \in MultiClasses, ps \in Sources(MaxHeld)}
              \cup {Construct(cls, [kind |-> "dict", items |-> d]) :
                        cls \in MultiClasses, d \in DictSources}
    /\ last = [op |-> "__init__", exc |-> NoExc]
    /\ od = Idle /\ hist = Idle /\ call = Idle /\ ret = Idle /\ ll = Idle /\ im = Idle

StepMV(name, a) ==
    LET r == Invoke(md, name, a)
    IN  /\ Stored(r.self) <= MaxHeld
        /\ Cardinality(DOMAIN r.self.data) <= MaxHeld
        /\ md' = r.self
        /\ last' = [op |-> name, exc |-> r.exc]
        /\ UNCHANGED <<od, hist, call, ret, ll, im>>

MVSetItem ==
    \E k \in Keys, v \in Values : StepMV("__setitem__", [NoArgs EXCEPT !.key = k, !.value = v])

MVAdd == \E k \in Keys, v \in Values : StepMV("add", [NoArgs EXCEPT !.key = k, !.value = v])

MVSetList ==
    \E k \in Keys, vs \in GivenLists : StepMV("setlist", [NoArgs EXCEPT !.key = k, !.values = vs])

MVSetListDefault ==
    \E k \in Keys, vs \in GivenLists :
        StepMV("setlistdefault", [NoArgs EXCEPT !.key = k, !.values = vs])

MVSetDefault ==
    \E k \in Keys, v \in Values : StepMV("setdefault", [NoArgs EXCEPT !.key = k, !.value = v])

MVUpdate ==
    \E ps \in Sources(MaxKw) : StepMV("update", [NoArgs EXCEPT !.source = PairSource(ps)])

MVPop ==
    \E k \in Keys, d \in {missing, Given(None)} :
        StepMV("pop", [NoArgs EXCEPT !.key = k, !.default = d])

MVPopList == \E k \in Keys : StepMV("poplist", [NoArgs EXCEPT !.key = k])

MVPopItem ==
    \E k \in Keys, l \in BOOLEAN :
        StepMV("popitem", [NoArgs EXCEPT !.choice = k, !.lastFlag = l])

NextMV ==
    \/ MVSetItem
    \/ MVAdd
    \/ MVSetList
    \/ MVSetListDefault
    \/ MVSetDefault
    \/ MVUpdate
    \/ MVPop
    \/ MVPopList
    \/ MVPopItem

SpecMV == InitMV /\ [][NextMV]_vars

\* C12: in every reachable state every present key is associated with a
\* non-empty list of values, so m[k] succeeds for every k with `k in m`.
C12_PresentKeysHaveValues ==
    \A k \in Keys :
        k \in DOMAIN md.data =>
            /\ MultiDictMixin_getlist(md, k) # <<>>
            /\ MultiDictMixin__getitem__(md, k).exc = NoExc

\* ---------------------------------------------------------------- SpecCD
\* CombinedDict(dicts) over up to MaxDicts constituents, each a dict or an
\* OrderedDict, read once: lookup and membership of every key, iteration and
\* length. The constituents are the pieces of one sequence of pairs, cut at
\* the places `cuts` (the last cut is the end of the sequence).
Cuts(ps) ==
    {C \in SUBSET (0..Len(ps)) :
        /\ Cardinality(C) <= MaxDicts
        /\ IF C = {} THEN ps = <<>> ELSE Len(ps) \in C}

Pieces(ps, cuts) ==
    LET cs == Ascending(cuts)
    IN  [j \in 1..Len(cs) |-> SubSeq(ps, (IF j = 1 THEN 0 ELSE cs[j - 1]) + 1, cs[j])]

InitCD ==
    /\ \E ps \in Sources(MaxStored) : \E cuts \in Cuts(ps) :
           \E cls \in [1..Cardinality(cuts) -> {"dict", "OrderedDict"}] :
               call = [dicts |-> [j \in 1..Cardinality(cuts) |->
                                    Construct(cls[j], PairSource(Pieces(ps, cuts)[j]))]]
    /\ ret = Pending
    /\ od = Idle /\ hist = Idle /\ last = Idle /\ ll = Idle /\ im = Idle /\ md = Idle

CDRead ==
    /\ ret = Pending
    /\ LET view == Construct("CombinedDict", [kind |-> "dicts", dicts |-> call.dicts])
       IN  ret' = Done([getitem |-> [k \in Keys |->
                                       CombinedDictMixin__getitem__(view, view.dicts, k)],
                        contains |-> [k \in Keys |-> CombinedDictMixin__contains__(view, k)],
                        iter |-> CombinedDictMixin__iter__(view),
                        len |-> CombinedDictMixin__len__(view)])
    /\ UNCHANGED <<od, hist, last, call, ll, im, md>>

SpecCD == InitCD /\ [][CDRead]_vars

\* The constituents that hold k, and the place of k's first occurrence when
\* the constituents' keys are chained.
Holders(k) == {i \in 1..Len(call.dicts) : k \in DOMAIN call.dicts[i].data}

FirstSeen(k) ==
    LET chained == Flatten([i \in 1..Len(call.dicts) |-> KeysOf(call.dicts[i])])
    IN  CHOOSE p \in 1..Len(chained) :
            chained[p] = k /\ \A q \in 1..(p - 1) : chained[q] # k

\* C13: view[k] is di[k] for the first constituent di holding k and KeyError
\* when none holds it; iteration yields every key exactly once, in the order
\* of first occurrence; len(view) is the number of distinct keys; `k in view`
\* is true exactly for the keys iteration yields.
C13_FirstMatchWins ==
    ret # Pending =>
        LET r == ret[1]
        IN  /\ \A k \in Keys :
                   IF Holders(k) = {} THEN r.getitem[k].exc = "KeyError"
                   ELSE LET i == CHOOSE i \in Holders(k) : \A j \in Holders(k) : i <= j
                        IN  /\ r.getitem[k].exc = NoExc
                            /\ r.getitem[k].ret = call.dicts[i].data[k]
            /\ Range(r.iter) = {k \in Keys : Holders(k) # {}}
            /\ \A p, q \in 1..Len(r.iter) :
                   p < q => r.iter[p] # r.iter[q] /\ FirstSeen(r.iter[p]) < FirstSeen(r.iter[q])
            /\ r.len = Cardinality({k \in Keys : Holders(k) # {}})
            /\ \A k \in Keys : r.contains[k] <=> k \in Range(r.iter)

\* The view over [{1: 1, 2: 2}, {1: 2, 3: 1}]: view[1] is 1, view[3] is 1,
\* its length is 3 and its keys are 1, 2, 3.
C13_Witness ==
    /\ ret # Pending
    /\ call.dicts = <<Construct("dict", PairSource(<<(<<1, 1>>), <<2, 2>>>>)),
                      Construct("OrderedDict", PairSource(<<(<<3, 1>>), <<1, 2>>>>))>>
    /\ ret[1].getitem[1].ret = 1
    /\ ret[1].getitem[3].ret = 1
    /\ ret[1].len = 3
    /\ ret[1].iter = <<1, 2, 3>>

\* ---------------------------------------------------------------- SpecCDEq
\* dict.__eq__ compares the dict parts of the two objects.
dict__eq__(self, other) == self.data = other.data

\* CombinedDict has no __eq__ of its own and neither have CombinedDictMixin
\* and ImmutableDictMixin: a == b is dict.__eq__, the next in the MRO. The
\* dict part of a combined view is never written (__init__ only sets dicts).
CombinedDict__eq__(self, other) == dict__eq__(self, other)

\* hash(tuple(...)) is a function of the tuple's elements; it is modelled
\* without collisions, as the tuple itself.
ImmutableDict__hash__(self) ==
    LET ks == dict__iter__(self) IN [i \in 1..Len(ks) |-> <<ks[i], self.data[ks[i]]>>]

CombinedDict__hash__(self) ==
    [i \in 1..Len(self.dicts) |-> ImmutableDict__hash__(self.dicts[i])]

\* Two CombinedDicts over up to MaxDicts ImmutableDicts each, compared and
\* hashed.
HashableDicts == {Construct("ImmutableDict", PairSource(ps)) : ps \in Sources(MaxKw)}

InitCDEq ==
    /\ call \in [a : SeqsUpTo(HashableDicts, MaxDicts), b : SeqsUpTo(HashableDicts, MaxDicts)]
    /\ ret = Pending
    /\ od = Idle /\ hist = Idle /\ last = Idle /\ ll = Idle /\ im = Idle /\ md = Idle

CDEq ==
    /\ ret = Pending
    /\ LET a == Construct("CombinedDict", [kind |-> "dicts", dicts |-> call.a])
           b == Construct("CombinedDict", [kind |-> "dicts", dicts |-> call.b])
       IN  ret' = Done([eq |-> CombinedDict__eq__(a, b),
                        hashes |-> <<CombinedDict__hash__(a), CombinedDict__hash__(b)>>])
    /\ UNCHANGED <<od, hist, last, call, ll, im, md>>

SpecCDEq == InitCDEq /\ [][CDEq]_vars

\* C14: two combined views are equal exactly when their constituent lists are
\* equal element for element in the same order, and equal views have equal
\* hashes.
C14_EqIffSameConstituents ==
    ret # Pending =>
        /\ ret[1].eq <=>
               /\ Len(call.a) = Len(call.b)
               /\ \A i \in 1..Len(call.a) : dict__eq__(call.a[i], call.b[i])
        /\ ret[1].eq => ret[1].hashes[1] = ret[1].hashes[2]

\* ---------------------------------------------------------------- SpecCM
\* CombinedMultiDict(dicts) over up to MaxDicts constituents, each a MultiDict
\* or an OrderedMultiDict built from a piece of one sequence of pairs, read
\* once. With hollow in Keys the first constituent has had setlist(hollow, [])
\* called on it before the view is built.
Hollowed(ds, hollow) ==
    IF hollow \in Keys /\ ds # <<>>
    THEN [ds EXCEPT ![1] = MultiDictMixin_setlist(ds[1], hollow, <<>>).self]
    ELSE ds

InitCM ==
    /\ \E ps \in Sources(MaxStored) : \E cuts \in Cuts(ps) :
           \E cls \in [1..Cardinality(cuts) -> MultiClasses] : \E hollow \in {None} \cup Keys :
               call = [dicts |-> Hollowed([j \in 1..Cardinality(cuts) |->
                                              Construct(cls[j], PairSource(Pieces(ps, cuts)[j]))],
                                          hollow)]
    /\ ret = Pending
    /\ od = Idle /\ hist = Idle /\ last = Idle /\ ll = Idle /\ im = Idle /\ md = Idle

CMRead ==
    /\ ret = Pending
    /\ LET view == Construct("CombinedMultiDict", [kind |-> "dicts", dicts |-> call.dicts])
       IN  ret' = Done([getlist |-> [k \in Keys |-> CombinedMultiDict_getlist(view, k)],
                        getitem |-> [k \in Keys |->
                                       CombinedDictMixin__getitem__(view, view.dicts, k)],
                        iter |-> CombinedDictMixin__iter__(view),
                        lists |-> CombinedMultiDict_iterlists(view),
                        multi |-> CombinedMultiDict_iteritems(view, TRUE).ret])
    /\ UNCHANGED <<od, hist, last, call, ll, im, md>>

SpecCM == InitCM /\ [][CMRead]_vars

\* The value lists of the constituents holding k, one after the other.
Concatenated(k) ==
    Flatten([i \in 1..Len(call.dicts) |->
                IF k \in DOMAIN call.dicts[i].data THEN call.dicts[i].data[k] ELSE <<>>])

\* C15: items/iteritems with multi=true on a combined multi-value view yields
\* one (key, value) item per element of each key's concatenated value list,
\* not one (key, list) item per key.
C15_MultiItemsPerValue ==
    ret # Pending =>
        LET ks == ret[1].iter
        IN  ret[1].multi =
                Flatten([i \in 1..Len(ks) |->
                            [j \in 1..Len(Concatenated(ks[i])) |->
                                ScalarItem(ks[i], Concatenated(ks[i])[j])]])

\* C16: getlist(k) on a combined multi-value view is the concatenation, in
\* constituent order and without de-duplication, of the value lists of every
\* constituent holding k (empty when none holds it); lists()/iterlists()
\* yields each distinct key once, in first-encounter order, paired with that
\* concatenated list; view[k] is the first element of getlist(k).
C16_ConcatenatedLists ==
    ret # Pending =>
        LET r == ret[1]
        IN  /\ \A k \in Keys : r.getlist[k] = Concatenated(k)
            /\ {r.lists[p][1] : p \in 1..Len(r.lists)} = {k \in Keys : Holders(k) # {}}
            /\ \A p, q \in 1..Len(r.lists) :
                   p < q => FirstSeen(r.lists[p][1]) < FirstSeen(r.lists[q][1])
            /\ \A p \in 1..Len(r.lists) : r.lists[p][2] = Concatenated(r.lists[p][1])
            /\ \A k \in Keys :
                   IF Holders(k) = {} THEN r.getitem[k].exc = "KeyError"
                   ELSE /\ r.getitem[k].exc = NoExc
                        /\ r.getlist[k] # <<>>
                        /\ r.getitem[k].ret = r.getlist[k][1]

\* ---------------------------------------------------------------- FixedDict
\* FixedDict(dict): only __setitem__ and update are its own; setdefault,
\* __delitem__ and pop are dict's.
AlreadySet == "KeyError: already set"

\* A mutant of __setitem__: without the `key in self` test.
FixedDict__setitem__overwrite(self, key, value) == Ok(dict__setitem__(self, key, value), None)

FixedDict__setitem__(self, key, value) ==
    IF key \in DOMAIN self.data THEN Raise(self, AlreadySet)
    ELSE Ok(dict__setitem__(self, key, value), None)

\* A mutant of the update loop: an item whose key is bound is skipped.
RECURSIVE FixedSetItems_skip(_, _)
FixedSetItems_skip(self, ps) ==
    IF ps = <<>> THEN Ok(self, None)
    ELSE LET r == FixedDict__setitem__(self, Head(ps)[1], Head(ps)[2])
         IN  FixedSetItems_skip(r.self, Tail(ps))

\* for key, value in mapping: FixedDict.__setitem__(self, key, value)
RECURSIVE FixedSetItems(_, _)
FixedSetItems(self, ps) ==
    IF ps = <<>> THEN Ok(self, None)
    ELSE LET r == FixedDict__setitem__(self, Head(ps)[1], Head(ps)[2])
         IN  IF r.exc # NoExc THEN r ELSE FixedSetItems(r.self, Tail(ps))

\* update(arg, **kw): the positional items first, then the keyword bindings.
FixedDict_update(self, arg, kw) == FixedSetItems(self, arg \o kw)

\* ---------------------------------------------------------------- SpecFD
\* One FixedDict (held in md) under item assignment, update, setdefault,
\* deletion and pop. last holds the latest call: its name, its key, the items
\* of an update in the order they are applied, the exception raised and the
\* dict part before the call.
InitFD ==
    /\ md = New("FixedDict")
    /\ last = [op |-> "__init__", key |-> None, items |-> <<>>, exc |-> NoExc,
               before |-> EmptyMap]
    /\ od = Idle /\ hist = Idle /\ call = Idle /\ ret = Idle /\ ll = Idle /\ im = Idle

StepFD(name, key, items, r) ==
    /\ md' = r.self
    /\ last' = [op |-> name, key |-> key, items |-> items, exc |-> r.exc, before |-> md.data]
    /\ UNCHANGED <<od, hist, call, ret, ll, im>>

FDSetItem ==
    \E k \in Keys, v \in Values : StepFD("__setitem__", k, <<>>, FixedDict__setitem__(md, k, v))

\* update(arg, **kw) with the items ps: the last n of them are keyword bindings.
FDUpdate ==
    \E ps \in Sources(MaxPairs), n \in 0..MaxKw :
        /\ n <= Len(ps)
        /\ LET arg == SubSeq(ps, 1, Len(ps) - n)
               kw == SubSeq(ps, Len(ps) - n + 1, Len(ps))
           IN  /\ NoDupKeys(kw)
               /\ StepFD("update", None, arg \o kw, FixedDict_update(md, arg, kw))

FDSetDefault ==
    \E k \in Keys, v \in Values : StepFD("setdefault", k, <<>>, dict_setdefault(md, k, v))

FDDelItem == \E k \in Keys : StepFD("__delitem__", k, <<>>, dict__delitem__(md, k))

FDPop ==
    \E k \in Keys, d \in {missing, Given(None)} : StepFD("pop", k, <<>>, dict_pop(md, k, d))

NextFD ==
    \/ FDSetItem
    \/ FDUpdate
    \/ FDSetDefault
    \/ FDDelItem
    \/ FDPop

SpecFD == InitFD /\ [][NextFD]_vars

\* C17: a bound key keeps its value for as long as it stays present, whatever
\* is called; assigning to a bound key fails with "already set" and leaves the
\* mapping unchanged; a key is bound anew only when it was absent before.
C17_WriteOnce ==
    /\ \A k \in DOMAIN last.before \cap DOMAIN md.data : md.data[k] = last.before[k]
    /\ (last.op = "__setitem__" /\ last.key \in DOMAIN last.before) =>
           last.exc = AlreadySet /\ md.data = last.before

\* An assignment to a key that is bound to 2 was rejected.
C17_Witness ==
    /\ last.op = "__setitem__"
    /\ last.key \in DOMAIN last.before
    /\ last.exc = AlreadySet
    /\ md.data[last.key] = 2

\* The place of the first item of an update whose key is bound when the item
\* is reached: bound before the call or by an earlier item. 0 when none is.
Conflicts(j) ==
    \/ last.items[j][1] \in DOMAIN last.before
    \/ \E i \in 1..(j - 1) : last.items[i][1] = last.items[j][1]

FirstConflict ==
    IF \E j \in 1..Len(last.items) : Conflicts(j)
    THEN CHOOSE j \in 1..Len(last.items) : Conflicts(j) /\ \A i \in 1..(j - 1) : ~Conflicts(i)
    ELSE 0

\* The dict part with the first n items of the update bound.
Applied(n) ==
    [k \in DOMAIN last.before \cup {last.items[i][1] : i \in 1..n} |->
        IF k \in DOMAIN last.before THEN last.before[k]
        ELSE last.items[CHOOSE i \in 1..n : last.items[i][1] = k][2]]

\* C18: update applies the items in order, positional ones first; at the
\* first item whose key is already bound it fails with "already set", the
\* earlier items stay bound and no later item is applied; a source without
\* such an item is applied completely.
C18_UpdateStopsAtConflict ==
    last.op = "update" =>
        IF FirstConflict = 0
        THEN last.exc = NoExc /\ md.data = Applied(Len(last.items))
        ELSE last.exc = AlreadySet /\ md.data = Applied(FirstConflict - 1)

\* An update bound its first item and failed at its second.
C18_Witness ==
    /\ last.op = "update"
    /\ FirstConflict = 2
    /\ last.exc = AlreadySet
    /\ last.items[1][1] \in DOMAIN md.data
    /\ last.items[1][1] \notin DOMAIN last.before

\* ---------------------------------------------------------------- Counter
\* Counter(dict): the elements are the keys, their counts the values. A
\* countable is one of
\*   [kind |-> "none"], no argument (or an empty one: `countable or []`),
\*   [kind |-> "elements", items |-> a sequence of elements],
\*   [kind |-> "counts", items |-> a sequence of <<element, count>>], the
\*       items of a mapping in its iteration order.
Counter__missing__(self, key) == 0

\* self[key]: dict.__getitem__, which calls __missing__ for an absent key.
Counter__getitem__(self, key) ==
    IF key \in DOMAIN self.data THEN self.data[key] ELSE Counter__missing__(self, key)

Counter_get(self, key, default) ==
    IF key \in DOMAIN self.data THEN self.data[key] ELSE default

\* izip(countable, repeat(1)) for elements, countable.iteritems() for a mapping.
CountItems(countable) ==
    CASE countable.kind = "elements" ->
             [i \in 1..Len(countable.items) |-> <<countable.items[i], 1>>]
      [] countable.kind = "counts" -> countable.items
      [] OTHER -> <<>>

\* for element, count in mapping: self[element] = self.get(element) + count
RECURSIVE CountAll(_, _)
CountAll(self, ps) ==
    IF ps = <<>> THEN self
    ELSE CountAll(dict__setitem__(self, Head(ps)[1], Counter_get(self, Head(ps)[1], 0) + Head(ps)[2]),
                  Tail(ps))

\* A mutant of update: self[element] = count, the stored count is not read.
RECURSIVE StoreAll(_, _)
StoreAll(self, ps) ==
    IF ps = <<>> THEN self
    ELSE StoreAll(dict__setitem__(self, Head(ps)[1], Head(ps)[2]), Tail(ps))

Counter_update_overwriting(self, countable, kw) ==
    Ok(StoreAll(StoreAll(self, CountItems(countable)), kw), None)

Counter_update(self, countable, kw) ==
    Ok(CountAll(CountAll(self, CountItems(countable)), kw), None)

Counter__init__(countable, kw) == Counter_update(New("Counter"), countable, kw).self

\* What a call hands back when its body ends without a return statement; a
\* returned value v is handed back as <<v>>.
ImplicitNone == <<>>

\* The loop of __sub__ over the elements es, filling result.
RECURSIVE SubLoop(_, _, _, _)
SubLoop(result, self, other, es) ==
    IF es = <<>> THEN result
    ELSE LET element == Head(es)
             newcount == Counter__getitem__(self, element) - Counter__getitem__(other, element)
         IN  SubLoop(IF newcount > 0 THEN dict__setitem__(result, element, newcount) ELSE result,
                     self, other, Tail(es))

\* __sub__ fills result and ends without returning it.
Counter__sub__(self, other) ==
    LET result == SubLoop(Counter__init__(NoSource, <<>>), self, other,
                          Ascending(DOMAIN self.data \cup DOMAIN other.data))
    IN  ImplicitNone

\* ---------------------------------------------------------------- SpecCtrSub
\* c1 - c2 for two Counters, each built from up to MaxLen elements.
Counters == {Counter__init__([kind |-> "elements", items |-> es], <<>>) : es \in SeqsUpTo(Keys, MaxLen)}

InitCtrSub ==
    /\ call \in [c1 : Counters, c2 : Counters]
    /\ ret = Pending
    /\ od = Idle /\ hist = Idle /\ last = Idle /\ ll = Idle /\ im = Idle /\ md = Idle

CtrSub ==
    /\ ret = Pending
    /\ ret' = Done([sub |-> Counter__sub__(call.c1, call.c2), c1 |-> call.c1, c2 |-> call.c2])
    /\ UNCHANGED <<od, hist, last, call, ll, im, md>>

SpecCtrSub == InitCtrSub /\ [][CtrSub]_vars

\* C19: c1 - c2 returns a new Counter holding, for every element whose count
\* in c1 exceeds its count in c2, the difference, and no other element;
\* neither operand is modified.
C19_Difference ==
    ret # Pending =>
        LET r == ret[1]
            more == {e \in Keys : Counter__getitem__(call.c1, e) > Counter__getitem__(call.c2, e)}
        IN  /\ r.sub # ImplicitNone
            /\ r.sub[1].data = [e \in more |-> Counter__getitem__(call.c1, e)
                                                  - Counter__getitem__(call.c2, e)]
            /\ r.c1 = call.c1 /\ r.c2 = call.c2

\* ---------------------------------------------------------------- SpecCtr
\* One Counter (held in md) from its construction on, under update with
\* elements, with a mapping of counts and with keyword bindings.
Counts == (0 - 1)..NVals

Countables ==
    {NoSource} \cup {[kind |-> "elements", items |-> es] : es \in SeqsUpTo(Keys, MaxPairs) \ {<<>>}}
               \cup {[kind |-> "counts", items |-> <<(<<e, c>>)>>] : e \in Keys, c \in Counts}

Bindings == {<<>>} \cup {<<(<<e, c>>)>> : e \in Keys, c \in Counts}

Within(c) == \A e \in DOMAIN c.data : c.data[e] <= MaxCount /\ c.data[e] >= 0 - MaxCount

InitCtr ==
    /\ md \in {Counter__init__(countable, <<>>) : countable \in Countables}
    /\ last = [op |-> "__init__"]
    /\ od = Idle /\ hist = Idle /\ call = Idle /\ ret = Idle /\ ll = Idle /\ im = Idle

StepCtr(r, name) ==
    /\ Within(r.self)
    /\ md' = r.self
    /\ last' = [op |-> name]
    /\ UNCHANGED <<od, hist, call, ret, ll, im>>

CtrUpdate == \E countable \in Countables : StepCtr(Counter_update(md, countable, <<>>), "update")

CtrUpdateKw == \E kw \in Bindings : StepCtr(Counter_update(md, NoSource, kw), "update(**kw)")

NextCtr ==
    \/ CtrUpdate
    \/ CtrUpdateKw

SpecCtr == InitCtr /\ [][NextCtr]_vars

\* C20: every count stored in a Counter is non-negative, after construction
\* and after any sequence of update calls.
C20_CountsNonNegative ==
    \A e \in DOMAIN md.data : md.data[e] >= 0

\* ---------------------------------------------------------------- SpecCtrOps
\* result = Counter(); for element in es: newcount = F(element);
\* if newcount > 0: result[element] = newcount; return result
Collect(es, F(_)) ==
    [Counter__init__(NoSource, <<>>) EXCEPT !.data = [e \in {x \in es : F(x) > 0} |-> F(e)]]

Counter__add__(self, other) ==
    Collect(DOMAIN self.data \cup DOMAIN other.data,
            LAMBDA e : Counter__getitem__(self, e) + Counter__getitem__(other, e))

Counter__mul__(self, other) ==
    Collect(DOMAIN self.data, LAMBDA e : Counter__getitem__(self, e) * other)

\* A mutant of __or__: over the elements both operands hold.
Counter__or__common(self, other) ==
    Collect(DOMAIN self.data \cap DOMAIN other.data,
            LAMBDA e : Max(Counter__getitem__(self, e), Counter__getitem__(other, e)))

Counter__or__(self, other) ==
    Collect(DOMAIN self.data \cup DOMAIN other.data,
            LAMBDA e : Max(Counter__getitem__(self, e), Counter__getitem__(other, e)))

\* __and__ swaps the operands when self is the one with fewer elements and
\* scans the other's elements that self holds.
Counter__and__(self, other) ==
    LET larger == IF Cardinality(DOMAIN self.data) < Cardinality(DOMAIN other.data)
                  THEN other ELSE self
        smaller == IF Cardinality(DOMAIN self.data) < Cardinality(DOMAIN other.data)
                   THEN self ELSE other
    IN  Collect({e \in DOMAIN smaller.data : e \in DOMAIN larger.data},
                LAMBDA e : Min(Counter__getitem__(larger, e), Counter__getitem__(smaller, e)))

\* The Counters built from a mapping of up to n counts, negative and zero
\* counts among them, and the scalars a Counter is multiplied with.
CountMaps(n) ==
    {[kind |-> "counts", items |-> ps] :
        ps \in {s \in SeqsUpTo(Keys \X Counts, n) :
                   \A i, j \in 1..Len(s) : i < j => s[i][1] < s[j][1]}}

Scalars == (0 - 1)..NVals

InitCtrOps ==
    /\ call \in [a : {Counter__init__(c, <<>>) : c \in CountMaps(MaxPairs)},
                 b : {Counter__init__(c, <<>>) : c \in CountMaps(MaxKw)}]
    /\ ret = Pending
    /\ od = Idle /\ hist = Idle /\ last = Idle /\ ll = Idle /\ im = Idle /\ md = Idle

CtrOps ==
    /\ ret = Pending
    /\ ret' = Done([add |-> Counter__add__(call.a, call.b),
                    or |-> Counter__or__(call.a, call.b),
                    and |-> Counter__and__(call.a, call.b),
                    rand |-> Counter__and__(call.b, call.a),
                    mul |-> [n \in Scalars |-> Counter__mul__(call.a, n)]])
    /\ UNCHANGED <<od, hist, last, call, ll, im, md>>

SpecCtrOps == InitCtrOps /\ [][CtrOps]_vars

\* The count of e in c, 0 when c does not hold e, read from the dict part.
CountOf(c, e) == IF e \in DOMAIN c.data THEN c.data[e] ELSE 0

\* The elements with a positive value under V, each mapped to it.
Positive(V(_)) == [e \in {x \in Keys : V(x) > 0} |-> V(e)]

\* C21: a + b, a | b, a & b and a * n hold exactly the elements whose sum,
\* maximum, minimum, count times n is positive, each mapped to that value;
\* a & b equals b & a; no result holds a zero or negative count.
C21_CounterAlgebra ==
    ret # Pending =>
        LET r == ret[1]
            a == call.a
            b == call.b
        IN  /\ r.add.data = Positive(LAMBDA e : CountOf(a, e) + CountOf(b, e))
            /\ r.or.data = Positive(LAMBDA e : IF CountOf(a, e) >= CountOf(b, e)
                                              THEN CountOf(a, e) ELSE CountOf(b, e))
            /\ r.and.data = Positive(LAMBDA e : IF CountOf(a, e) <= CountOf(b, e)
                                               THEN CountOf(a, e) ELSE CountOf(b, e))
            /\ r.rand = r.and
            /\ \A n \in Scalars : r.mul[n].data = Positive(LAMBDA e : CountOf(a, e) * n)
            /\ \A c \in {r.add, r.or, r.and, r.rand} \cup {r.mul[n] : n \in Scalars} :
                   \A e \in DOMAIN c.data : c.data[e] > 0

\* a holds two elements and b one of them with the smaller count; a third
\* element only a holds.
C21_Witness ==
    /\ ret # Pending
    /\ call.a.data = (1 :> 2 @@ 2 :> 1)
    /\ call.b.data = (1 :> 1)
    /\ ret[1].add.data = (1 :> 3 @@ 2 :> 1)
    /\ ret[1].or.data = (1 :> 2 @@ 2 :> 1)
    /\ ret[1].and.data = (1 :> 1)
    /\ ret[1].mul[2].data = (1 :> 4 @@ 2 :> 2)

\* ---------------------------------------------------------------- SpecODMove
\* One OrderedDict under item assignment, deletion and move_to_end. last
\* holds the latest call, the exception it raised and the object before it.
InitODMove ==
    /\ od = OrderedDict__init__("OrderedDict", <<>>, <<>>)
    /\ last = [op |-> "__init__", key |-> None, lastFlag |-> TRUE, exc |-> NoExc, before |-> od]
    /\ hist = Idle /\ call = Idle /\ ret = Idle /\ ll = Idle /\ im = Idle /\ md = Idle

StepODMove(name, key, lastFlag, r) ==
    /\ od' = r.self
    /\ last' = [op |-> name, key |-> key, lastFlag |-> lastFlag, exc |-> r.exc, before |-> od]
    /\ UNCHANGED <<hist, call, ret, ll, im, md>>

ODMoveSetItem ==
    \E k \in Keys, v \in Values :
        StepODMove("__setitem__", k, TRUE, Ok(OrderedDict__setitem__(od, k, v), None))

ODMoveDelItem == \E k \in Keys : StepODMove("__delitem__", k, TRUE, OrderedDict__delitem__(od, k))

ODMoveToEnd ==
    \E k \in Keys, f \in BOOLEAN : StepODMove("move_to_end", k, f, OrderedDict_move_to_end(od, k, f))

NextODMove ==
    \/ ODMoveSetItem
    \/ ODMoveDelItem
    \/ ODMoveToEnd

SpecODMove == InitODMove /\ [][NextODMove]_vars

\* C22: move_to_end(k, last) makes k the last (last = true) or the first
\* (last = false) key of the iteration, leaving the key set, the values and
\* the relative order of the other keys as they were; for an absent key it
\* raises KeyError and changes nothing. Backward iteration is the reverse of
\* forward iteration afterwards.
C22_MoveToEnd ==
    last.op = "move_to_end" =>
        LET before == OrderedDict__iter__(last.before)
            others == SelectSeq(before, LAMBDA k : k # last.key)
        IN  IF last.key \notin Range(before)
            THEN last.exc = "KeyError" /\ od = last.before
            ELSE /\ last.exc = NoExc
                 /\ od.data = last.before.data
                 /\ OrderedDict__iter__(od) =
                        IF last.lastFlag THEN Append(others, last.key) ELSE <<last.key>> \o others
                 /\ OrderedDict__reversed__(od) = Reversed(OrderedDict__iter__(od))

\* The first of three keys was moved to the end.
C22_Witness ==
    /\ last.op = "move_to_end"
    /\ last.lastFlag
    /\ OrderedDict__iter__(last.before) = <<1, 2, 3>>
    /\ OrderedDict__iter__(od) = <<2, 3, 1>>

\* The only key was moved to the front, where it already was.
C22_WitnessOnlyKey ==
    /\ last.op = "move_to_end"
    /\ ~last.lastFlag
    /\ OrderedDict__iter__(last.before) = <<2>>
    /\ OrderedDict__iter__(od) = <<2>>

\* ---------------------------------------------------------------- SpecLLOps
\* list.pop: index is <<>> when it is not given, which pops the last item.
LazyList_pop(self, index) ==
    LET s == LazyList_exhaust(self, index)
        n == Len(s.collected)
        i == IF index = <<>> THEN -1 ELSE index[1]
        g == ListGet(s.collected, i)
        at == IF i >= 0 THEN i + 1 ELSE n + i + 1
    IN  IF g.exc # NoExc THEN Raise(s, g.exc)
        ELSE Ok([s EXCEPT !.collected = SubSeq(s.collected, 1, at - 1)
                                        \o SubSeq(s.collected, at + 1, n)], g.ret)

\* list.remove: the first occurrence goes.
RemoveFirst(s, x) ==
    LET at == CHOOSE i \in 1..Len(s) : s[i] = x /\ \A j \in 1..(i - 1) : s[j] # x
    IN  SubSeq(s, 1, at - 1) \o SubSeq(s, at + 1, Len(s))

\* remove(object): the while loop; each miss takes one more item.
RECURSIVE LazyList_remove(_, _)
LazyList_remove(self, object) ==
    IF object \in Range(self.collected)
    THEN Ok([self EXCEPT !.collected = RemoveFirst(self.collected, object)], None)
    ELSE IF self.exhausted THEN Raise(self, "ValueError")
    ELSE LazyList_remove(LazyList_exhaust(self, <<LazyList_known_length(self)>>), object)

LazyList_reverse(self) ==
    LET s == LazyList_exhaust(self, <<>>)
    IN  Ok([s EXCEPT !.collected = Reversed(s.collected)], None)

LazyList_sort(self) ==
    LET s == LazyList_exhaust(self, <<>>)
    IN  Ok([s EXCEPT !.collected = SortSeq(s.collected, LAMBDA a, b : a < b)], None)

LazyList__len__(self) ==
    LET s == LazyList_exhaust(self, <<>>)
    IN  Ok(s, LazyList_known_length(s))

\* One LazyList under every kind of operation. hist keeps the items of the
\* source it was made from, the items appended since, in order, and whether
\* any other change was made to it; last names the latest call, the objects it
\* appended and whether the list was exhausted before it.
InitLLOps ==
    /\ \E source \in LLSources :
        /\ ll = LazyList__init__(source)
        /\ hist = [src |-> source, added |-> <<>>, edited |-> FALSE]
    /\ last = [op |-> "none", exc |-> NoExc, objects |-> <<>>, exh0 |-> FALSE]
    /\ od = Idle /\ call = Idle /\ ret = Idle /\ im = Idle /\ md = Idle

StepLLOps(name, r, objects, edit) ==
    /\ Len(r.self.collected) + Len(r.self.iterator.pending) <= MaxLen
    /\ r.self.iterator.n <= MaxLen
    /\ Len(hist.added) + Len(objects) <= MaxItems
    /\ ll' = r.self
    /\ hist' = [hist EXCEPT !.added = @ \o objects, !.edited = @ \/ edit]
    /\ last' = [op |-> name, exc |-> r.exc, objects |-> objects, exh0 |-> ll.exhausted]
    /\ UNCHANGED <<od, call, ret, im, md>>

OpsGetItem ==
    \E i \in -1..MaxLen :
        Terminates(ll, <<i>>) /\ StepLLOps("__getitem__", LazyList__getitem__(ll, i), <<>>, FALSE)

OpsSetItem ==
    \E i \in -1..MaxEdit :
        Terminates(ll, <<i>>) /\ StepLLOps("__setitem__", LazyList__setitem__(ll, i, None), <<>>, TRUE)

OpsDelItem ==
    \E i \in -1..MaxEdit :
        Terminates(ll, <<i>>) /\ StepLLOps("__delitem__", LazyList__delitem__(ll, i), <<>>, TRUE)

OpsInsert ==
    \E i \in -1..MaxEdit :
        Terminates(ll, <<i>>) /\ StepLLOps("insert", LazyList_insert(ll, i, None), <<>>, TRUE)

OpsPop ==
    \E index \in {<<>>} \cup {<<i>> : i \in 0..MaxEdit} :
        Terminates(ll, index) /\ StepLLOps("pop", LazyList_pop(ll, index), <<>>, TRUE)

\* Over itertools.count() the loop of remove ends only when the object is
\* still to come.
OpsRemove ==
    \E object \in Values :
        /\ ll.exhausted \/ ll.iterator.tail = "end" \/ object \in Range(ll.collected)
            \/ object >= ll.iterator.n
        /\ StepLLOps("remove", LazyList_remove(ll, object), <<>>, TRUE)

OpsReverse == Terminates(ll, <<>>) /\ StepLLOps("reverse", LazyList_reverse(ll), <<>>, TRUE)

OpsSort == Terminates(ll, <<>>) /\ StepLLOps("sort", LazyList_sort(ll), <<>>, TRUE)

OpsLen == Terminates(ll, <<>>) /\ StepLLOps("__len__", LazyList__len__(ll), <<>>, FALSE)

OpsNonzero == StepLLOps("__nonzero__", LazyList__nonzero__(ll), <<>>, FALSE)

\* The objects appended are numbered in the order of their appending.
Fresh(n) == [i \in 1..n |-> Len(hist.added) + i]

OpsAppend == StepLLOps("append", LazyList_append(ll, Fresh(1)[1]), Fresh(1), FALSE)

OpsExtend ==
    \E n \in 0..MaxItems :
        StepLLOps("extend", LazyList_extend(ll, Fresh(n)), Fresh(n), FALSE)

NextLLOps ==
    \/ OpsGetItem
    \/ OpsSetItem
    \/ OpsDelItem
    \/ OpsInsert
    \/ OpsPop
    \/ OpsRemove
    \/ OpsReverse
    \/ OpsSort
    \/ OpsLen
    \/ OpsNonzero
    \/ OpsAppend
    \/ OpsExtend

SpecLLOps == InitLLOps /\ [][NextLLOps]_vars

\* The items the source has yet to yield, when it has an end.
Remaining(self) == self.iterator.pending

\* C23: once exhausted is true it stays true under every later operation and
\* the source iterator is never taken from again; no item is left in the
\* source and the buffer is the whole content, which append and extend then
\* change directly. While exhausted is false the content is the buffer
\* followed by the items still to come from the source.
C23_ExhaustedIsFinal ==
    /\ [](ll.exhausted =>
            /\ Remaining(ll) = <<>>
            /\ IterFrom(ll, 0) = ll.collected)
    /\ []((~ll.exhausted /\ ll.iterator.tail = "end") =>
            IterFrom(ll, 0) = ll.collected \o Remaining(ll))
    /\ []((~ll.exhausted /\ ll.iterator.tail = "count") =>
            LazyList__getitem__(ll, LazyList_known_length(ll)).ret = ll.iterator.n)
    /\ [][ll.exhausted =>
            /\ ll'.exhausted
            /\ ll'.iterator = ll.iterator
            /\ (last'.op \in {"append", "extend"} =>
                    ll'.collected = ll.collected \o last'.objects)]_vars

\* A lazily read source of two items ran out, and an item was appended after.
C23_Witness ==
    /\ hist.src.kind = "iter" /\ Len(hist.src.items) = 2
    /\ ll.exhausted
    /\ last.op = "append"
    /\ ~hist.edited
    /\ ll.collected = hist.src.items \o hist.added
    /\ Len(hist.added) = 1

\* C24: append and extend take nothing from the source. On a list that is
\* not exhausted they leave the known length and the exhausted flag as they
\* were and put the objects behind the items the source has yet to yield;
\* once the list is realized in full, the appended objects come after all
\* items of the source, in the order of their appending. On an exhausted
\* list they go straight to the end of the buffer.
C24_AppendChains ==
    /\ []((~hist.edited /\ ll.exhausted) => ll.collected = hist.src.items \o hist.added)
    /\ [][(last'.op \in {"append", "extend"} /\ ~ll.exhausted) =>
            /\ ll'.collected = ll.collected
            /\ LazyList_known_length(ll') = LazyList_known_length(ll)
            /\ ~ll'.exhausted
            /\ ll'.iterator.n = ll.iterator.n
            /\ (ll.iterator.tail = "end" =>
                    Remaining(ll') = Remaining(ll) \o last'.objects)]_vars
    /\ [][(last'.op \in {"append", "extend"} /\ ll.exhausted) =>
            /\ ll'.collected = ll.collected \o last'.objects
            /\ ll'.iterator = ll.iterator]_vars

\* Two objects were appended to a list over a lazily read source of one
\* item before its end was reached; the full read that followed gave the
\* source's item and then the two objects.
C24_Witness ==
    /\ hist.src.kind = "iter" /\ hist.src.items = <<1>>
    /\ hist.added = <<1, 2>> /\ ~hist.edited
    /\ last.op = "__len__" /\ ~last.exh0
    /\ ll.exhausted /\ ll.collected = <<1, 1, 2>>

\* ---------------------------------------------------------------- CombinedList
\* view[index] = item for an integer index: the constituent's own assignment.
CombinedList__setitem__(self, index, item) ==
    LET r == CombinedSequence_at_index(self, index)
    IN  IF r.exc # NoExc THEN r
        ELSE LET n == r.ret.sequence
                 list == self.sequences[n]
                 g == ListGet(list, r.ret.index)
                 at == IF r.ret.index >= 0 THEN r.ret.index + 1
                       ELSE Len(list) + r.ret.index + 1
             IN  IF g.exc # NoExc THEN Raise(self, g.exc)
                 ELSE Ok([self EXCEPT !.sequences[n][at] = item], None)

\* view[start:stop] = items: the loop over zip(range(start, stop), items).
RECURSIVE CombinedList__setitem__slice(_, _, _, _)
CombinedList__setitem__slice(self, start, stop, items) ==
    IF start >= stop \/ items = <<>> THEN Ok(self, None)
    ELSE LET r == CombinedList__setitem__(self, start, Head(items))
         IN  IF r.exc # NoExc THEN r
             ELSE CombinedList__setitem__slice(r.self, start + 1, stop, Tail(items))

\* values[previous_length:stop] of a list.
Slice(values, from, to) == SubSeq(values, Min(from, Len(values)) + 1, Min(to, Len(values)))

\* The loop of _set_values over the lengths taken before any write.
RECURSIVE SetValuesLoop(_, _, _, _)
SetValuesLoop(self, lengths, previous_length, values) ==
    IF lengths = <<>> THEN Ok(self, None)
    ELSE LET stop == previous_length + Head(lengths)
             r == CombinedList__setitem__slice(self, previous_length, stop,
                                               Slice(values, previous_length, stop))
         IN  IF r.exc # NoExc THEN r
             ELSE SetValuesLoop(r.self, Tail(lengths), stop, values)

\* A mutant of _set_values: every constituent is filled from the start of
\* values.
CombinedList_set_values_restart(self, values) ==
    Ok([self EXCEPT !.sequences =
            [n \in 1..Len(self.sequences) |-> Slice(values, 0, Len(self.sequences[n]))]], None)

CombinedList_set_values(self, values) ==
    SetValuesLoop(self, [n \in 1..Len(self.sequences) |-> Len(self.sequences[n])], 0, values)

\* self[::-1] is list(iter(self))[::-1].
CombinedList_reverse(self) ==
    CombinedList_set_values(self, Reversed(CombinedSequence__iter__(self)))

\* sorted(self) with the default order.
CombinedList_sort(self) ==
    CombinedList_set_values(self, SortSeq(CombinedSequence__iter__(self), LAMBDA a, b : a < b))

\* pop(index): index is <<>> when it is not given, which stands for -1.
CombinedList_pop(self, index) ==
    LET i == IF index = <<>> THEN -1 ELSE index[1]
        r == CombinedSequence_at_index(self, i)
    IN  IF r.exc # NoExc THEN r
        ELSE LET n == r.ret.sequence
                 list == self.sequences[n]
                 g == ListGet(list, r.ret.index)
                 at == IF r.ret.index >= 0 THEN r.ret.index + 1
                       ELSE Len(list) + r.ret.index + 1
             IN  IF g.exc # NoExc THEN Raise(self, g.exc)
                 ELSE Ok([self EXCEPT !.sequences[n] =
                            SubSeq(list, 1, at - 1) \o SubSeq(list, at + 1, Len(list))], g.ret)

\* ---------------------------------------------------------------- SpecCLSet
\* reverse() and sort() on a CombinedList over up to MaxSeqs lists, which
\* are the pieces of one content of the given lengths. The lists are
\* distinct objects.
RECURSIVE Split(_, _)
Split(F, lens) ==
    IF lens = <<>> THEN <<>>
    ELSE <<SubSeq(F, 1, Head(lens))>> \o Split(SubSeq(F, Head(lens) + 1, Len(F)), Tail(lens))

RECURSIVE Sum(_)
Sum(lens) == IF lens = <<>> THEN 0 ELSE Head(lens) + Sum(Tail(lens))

Splits(F) == {lens \in SeqsUpTo(0..Len(F), MaxSeqs) : Sum(lens) = Len(F)}

Contents ==
    SeqsUpTo(Keys, MaxStored) \cup {[i \in 1..n |-> i] : n \in 0..(MaxSeqs * MaxLen)}

InitCLSet ==
    /\ \E F \in Contents : \E lens \in Splits(F) : \E op \in {"reverse", "sort"} :
           call = [sequences |-> Split(F, lens), op |-> op]
    /\ ret = Pending
    /\ od = Idle /\ hist = Idle /\ last = Idle /\ ll = Idle /\ im = Idle /\ md = Idle

CLSet ==
    /\ ret = Pending
    /\ LET self == CombinedSequence__init__(call.sequences)
       IN  ret' = Done(IF call.op = "reverse" THEN CombinedList_reverse(self)
                       ELSE CombinedList_sort(self))
    /\ UNCHANGED <<od, hist, last, call, ll, im, md>>

SpecCLSet == InitCLSet /\ [][CLSet]_vars

\* How often x occurs in s.
Occurrences(s, x) == Cardinality({i \in 1..Len(s) : s[i] = x})

\* G is F in ascending order.
IsSortedOf(G, F) ==
    /\ Len(G) = Len(F)
    /\ \A x \in Range(F) \cup Range(G) : Occurrences(G, x) = Occurrences(F, x)
    /\ \A i \in 1..(Len(G) - 1) : G[i] <= G[i + 1]

C25_WitnessSort ==
    /\ ret # Pending
    /\ call.op = "sort"
    /\ call.sequences = <<(<<3, 1>>), (<<2, 1>>)>>
    /\ ret[1].self.sequences = <<(<<1, 1>>), (<<2, 3>>)>>

\* ---------------------------------------------------------------- SpecCLPop
\* pop(index) and pop() on a CombinedList whose constituents hold the integers
\* 1, 2, 3, ... in order, so that every element names its position.
InitCLPop ==
    /\ call \in [lens : SeqsUpTo(0..MaxLen, MaxSeqs),
                 index : {<<>>} \cup {<<i>> : i \in Indices}]
    /\ ret = Pending
    /\ od = Idle /\ hist = Idle /\ last = Idle /\ ll = Idle /\ im = Idle /\ md = Idle

CLPop ==
    /\ ret = Pending
    /\ ret' = Done(CombinedList_pop(CombinedSequence__init__(Numbered(call.lens, 0)),
                                    call.index))
    /\ UNCHANGED <<od, hist, last, call, ll, im, md>>

SpecCLPop == InitCLPop /\ [][CLPop]_vars

\* C26: pop(i) on a CombinedList with flattened content F removes and returns
\* F[i] for every index with -len(F) <= i < len(F) (i is -1 when not given,
\* the last element, whatever empty constituents come after it) and leaves
\* the flattened content F without that position; any other index, and any
\* index on an empty view, raises IndexError and changes no constituent.
C26_Pop ==
    ret # Pending =>
        LET seqs == Numbered(call.lens, 0)
            F == Flatten(seqs)
            i == IF call.index = <<>> THEN -1 ELSE call.index[1]
            want == IF i >= 0 THEN i ELSE Len(F) + i
            after == ret[1].self.sequences
        IN  IF (0 - Len(F)) <= i /\ i < Len(F)
            THEN /\ ret[1].exc = NoExc
                 /\ ret[1].ret = F[want + 1]
                 /\ Flatten(after) = SubSeq(F, 1, want) \o SubSeq(F, want + 2, Len(F))
            ELSE /\ ret[1].exc = "IndexError"
                 /\ after = seqs

\* ---------------------------------------------------------------- SpecOSet
\* remove(element) is del self._orderedmap[element].
OrderedSet_remove(self, element) ==
    LET r == OrderedDict__delitem__(self.orderedmap, element)
    IN  IF r.exc # NoExc THEN Raise(self, r.exc)
        ELSE Ok([self EXCEPT !.orderedmap = r.self], None)

\* discard(element) is self._orderedmap.pop(element, None).
OrderedSet_discard(self, element) ==
    LET r == OrderedDict_pop(self.orderedmap, element, <<None>>)
    IN  IF r.exc # NoExc THEN Raise(self, r.exc)
        ELSE Ok([self EXCEPT !.orderedmap = r.self], None)

\* One OrderedSet, built from a sequence of elements, under add, remove and
\* discard. last describes the latest call: its name and element, what it
\* raised, the set's iteration before it, and the call before it.
NoCall == [op |-> "none", element |-> 0, exc |-> NoExc]

InitOSet ==
    /\ \E given \in SeqsUpTo(Keys, MaxStored) :
        /\ md = OrderedSet__init__(given)
        /\ last = [op |-> "__init__", element |-> 0, exc |-> NoExc, before |-> given,
                   prev |-> NoCall]
    /\ od = Idle /\ hist = Idle /\ call = Idle /\ ret = Idle /\ ll = Idle /\ im = Idle

StepOSet(name, element, r) ==
    /\ md' = r.self
    /\ last' = [op |-> name, element |-> element, exc |-> r.exc,
                before |-> OrderedSet__iter__(md),
                prev |-> [op |-> last.op, element |-> last.element, exc |-> last.exc]]
    /\ UNCHANGED <<od, hist, call, ret, ll, im>>

OSetAdd == \E element \in Keys : StepOSet("add", element, Ok(OrderedSet_add(md, element), None))

OSetRemove == \E element \in Keys : StepOSet("remove", element, OrderedSet_remove(md, element))

OSetDiscard == \E element \in Keys : StepOSet("discard", element, OrderedSet_discard(md, element))

NextOSet ==
    \/ OSetAdd
    \/ OSetRemove
    \/ OSetDiscard

SpecOSet == InitOSet /\ [][NextOSet]_vars

\* The place of the first occurrence of x in s.
FirstIndex(s, x) == CHOOSE i \in 1..Len(s) : s[i] = x /\ \A j \in 1..(i - 1) : s[j] # x

\* s without the element x, for s without duplicates.
Without(s, x) == SelectSeq(s, LAMBDA e : e # x)

\* C27: an OrderedSet holds no element twice and iterates in the order of
\* first insertion: built from [3, 1, 2, 1] it has length 3 and iterates 3,
\* 1, 2. Adding an element it holds changes neither length nor order; an
\* element removed and added again comes last. remove of an absent element
\* raises KeyError, discard of one does nothing, and both leave the set as it
\* was.
C27_InsertionOrder ==
    LET now == OrderedSet__iter__(md)
        held == last.element \in Range(last.before)
    IN  /\ Cardinality(Range(now)) = Len(now)
        /\ OrderedSet__len__(md) = Len(now)
        /\ \A e \in Keys : OrderedSet__contains__(md, e) <=> e \in Range(now)
        /\ last.op = "__init__" =>
            /\ Range(now) = Range(last.before)
            /\ \A i, j \in 1..Len(now) :
                  i < j => FirstIndex(last.before, now[i]) < FirstIndex(last.before, now[j])
            /\ last.before = <<3, 1, 2, 1>> => (now = <<3, 1, 2>> /\ OrderedSet__len__(md) = 3)
        /\ last.op = "add" =>
            /\ last.exc = NoExc
            /\ now = IF held THEN last.before ELSE Append(last.before, last.element)
            /\ (last.prev = [op |-> "remove", element |-> last.element, exc |-> NoExc]) =>
                  now[Len(now)] = last.element
        /\ last.op = "remove" =>
            IF held THEN last.exc = NoExc /\ now = Without(last.before, last.element)
            ELSE last.exc = "KeyError" /\ now = last.before
        /\ last.op = "discard" =>
            /\ last.exc = NoExc
            /\ now = IF held THEN Without(last.before, last.element) ELSE last.before

\* The first of three elements was removed and added again: it is last now.
C27_Witness ==
    /\ last.op = "add" /\ last.element = 3
    /\ last.prev = [op |-> "remove", element |-> 3, exc |-> NoExc]
    /\ last.before = <<1, 2>>
    /\ OrderedSet__iter__(md) = <<1, 2, 3>>

\* The set built from [3, 1, 2, 1].
C27_WitnessBuilt ==
    /\ last.op = "__init__" /\ last.before = <<3, 1, 2, 1>>
    /\ OrderedSet__iter__(md) = <<3, 1, 2>>

\* ---------------------------------------------------------------- proxies
\* src/brownie/proxies.py. The list literal of SPECIAL_METHODS, entry by
\* entry: an entry is what stands between two commas, one string literal or
\* several adjacent ones, which Python joins into one string.
Entries ==
    << <<"__str__">>, <<"__unicode__">>,
       <<"__complex__">>, <<"__int__">>, <<"__long__">>, <<"__float__">>, <<"__oct__">>,
       <<"__hex__">>,
       <<"__nonzero__">>, <<"__index__">>, <<"__coerce__">>,
       <<"__lt__">>, <<"__le__">>, <<"__eq__">>, <<"__ne__">>, <<"__gt__">>, <<"__ge__">>,
       <<"__cmp__">>,
       <<"__hash__">>,
       <<"__get__">>, <<"__set__">>, <<"__delete__">>,
       <<"__len__">>, <<"__getitem__">>, <<"__setitem__">>, <<"__delitem__">>,
       <<"__iter__">>, <<"__reversed__">>,
       <<"__contains__", "__getslice__">>,
       <<"__setslice__">>, <<"__delslice__">>,
       <<"__add__">>, <<"__radd__">>, <<"__iadd__">>,
       <<"__sub__">>, <<"__rsub__">>, <<"__isub__">>,
       <<"__mul__">>, <<"__rmul__">>, <<"__imul__">>,
       <<"__div__">>, <<"__rdiv__">>, <<"__idiv__">>,
       <<"__truediv__">>, <<"__rtruediv__">>,
       <<"__itruediv__", "__floordiv__">>, <<"__rfloordiv__">>, <<"__ifloordiv__">>,
       <<"__mod__">>, <<"__rmod__">>, <<"__imod__">>,
       <<"__divmod__">>, <<"__rdivmod__">>, <<"__ipow__">>,
       <<"__pow__">>, <<"__rpow__">>, <<"__ipow__">>,
       <<"__lshift__">>, <<"__rlshift__">>, <<"__ilshift__">>,
       <<"__rshift__">>, <<"__rrshift__">>, <<"__rlshift__">>,
       <<"__and__">>, <<"__rand__">>, <<"__iand__">>,
       <<"__xor__">>, <<"__rxor__">>, <<"__ixor__">>,
       <<"__or__">>, <<"__ror__">>, <<"__ior__">>,
       <<"__neg__">>, <<"__pos__">>, <<"__abs__">>,
       <<"__invert__", "__instancecheck__">>,
       <<"__issubclass__">>,
       <<"__call__">>,
       <<"__enter__">>, <<"__exit__">> >>

RECURSIVE Joined(_)
Joined(literals) == IF literals = <<>> THEN "" ELSE Head(literals) \o Joined(Tail(literals))

SPECIAL_METHODS == {Joined(Entries[i]) : i \in 1..Len(Entries)}

\* A proxy class is given by its method handler: the handler of the model
\* answers the operations in `handles` with a value of its own and every
\* other operation with `missing`. The default handler has handles = {}.
ProxyBase__init__(handles, proxied) == [handles |-> handles, proxied |-> proxied]

Handled(name) == [handled |-> name]

MethodHandler(self, proxied, name, args) ==
    IF name \in self.handles THEN <<Handled(name)>> ELSE missing

\* self._ProxyBase__proxied.name(*args) for a list: the operations on lists
\* that the model computes, and an uninterpreted result for every other one.
TargetCall(proxied, name, args) ==
    CASE name = "__len__" -> Ok(proxied, Len(proxied))
      [] name = "__getitem__" -> ListGet(proxied, args[1])
      [] name = "__setitem__" ->
            IF ListGet(proxied, args[1]).exc # NoExc THEN Raise(proxied, "IndexError")
            ELSE Ok([proxied EXCEPT ![args[1] + 1] = args[2]], None)
      [] name = "__iter__" -> Ok(proxied, proxied)
      [] OTHER -> Ok(proxied, [performed |-> name, on |-> proxied, args |-> args])

\* What a call did, in order: who was called, on what, with what.
Event(who, proxied, name, args) ==
    [who |-> who, proxied |-> proxied, name |-> name, args |-> args]

Logged(self, value, exc, log) == [self |-> self, ret |-> value, exc |-> exc, log |-> log]

\* A mutant of the generated method: the target is called, the handler is not.
ProxyBase_method_forward(self, name, args) ==
    LET r == TargetCall(self.proxied, name, args)
    IN  Logged([self EXCEPT !.proxied = r.self], r.ret, r.exc,
               <<Event("target", self.proxied, name, args)>>)

\* The method that method_template defines for `name`.
ProxyBase_method(self, name, args) ==
    LET result == MethodHandler(self, self.proxied, name, args)
        asked == <<Event("handler", self.proxied, name, args)>>
    IN  IF result = missing
        THEN LET r == TargetCall(self.proxied, name, args)
             IN  Logged([self EXCEPT !.proxied = r.self], r.ret, r.exc,
                        Append(asked, Event("target", self.proxied, name, args)))
        ELSE Logged(self, result[1], NoExc, asked)

\* The operation `name` applied to a proxy. The class has a method for the
\* names in SPECIAL_METHODS. For any other name the interpreter does what it
\* does for a type without that method: membership is tested by iteration,
\* an augmented assignment uses the plain operator, a slice is read through
\* __getitem__, and the rest is a TypeError.
Operate(self, name, args) ==
    IF name \in SPECIAL_METHODS THEN ProxyBase_method(self, name, args)
    ELSE CASE name = "__contains__" ->
                LET r == ProxyBase_method(self, "__iter__", <<>>)
                IN  IF "__iter__" \in self.handles THEN Logged(r.self, None, "TypeError", r.log)
                    ELSE Logged(r.self, args[1] \in Range(r.ret), r.exc, r.log)
           [] name = "__itruediv__" -> ProxyBase_method(self, "__truediv__", args)
           [] name = "__irshift__" -> ProxyBase_method(self, "__rshift__", args)
           [] name = "__getslice__" -> ProxyBase_method(self, "__getitem__", args)
           [] OTHER -> Logged(self, None, "TypeError", <<>>)

\* ---------------------------------------------------------------- SpecProxy
\* One proxy of a generated class around a list, under the operations of the
\* catalogue. The class's handler answers no operation (the default), every
\* operation, or one of the operations the model computes.
Literals == UNION {Range(Entries[i]) : i \in 1..Len(Entries)}

\* The augmented right shift stands nowhere in the list.
Catalogue == Literals \cup {"__irshift__"}

Computed == {"__len__", "__getitem__", "__setitem__", "__iter__"}

Handlers == {{}, Catalogue} \cup {{name} : name \in Computed}

Args(name) ==
    CASE name \in {"__getitem__", "__getslice__"} -> {<<i>> : i \in 0..MaxEdit}
      [] name = "__setitem__" -> {<<i, None>> : i \in 0..MaxEdit}
      [] name = "__contains__" -> {<<v>> : v \in Values}
      [] OTHER -> {<<>>}

InitProxy ==
    /\ md \in {ProxyBase__init__(handles, proxied) :
                 handles \in Handlers, proxied \in SeqsUpTo(Values, MaxItems)}
    /\ last = [name |-> "none", args |-> <<>>, ret |-> None, exc |-> NoExc, log |-> <<>>,
               before |-> <<>>]
    /\ od = Idle /\ hist = Idle /\ call = Idle /\ ret = Idle /\ ll = Idle /\ im = Idle

StepProxy(name, args) ==
    LET r == Operate(md, name, args)
    IN  /\ md' = r.self
        /\ last' = [name |-> name, args |-> args, ret |-> r.ret, exc |-> r.exc,
                    log |-> r.log, before |-> md.proxied]
        /\ UNCHANGED <<od, hist, call, ret, ll, im>>

\* An operation the class has a method for.
ProxyIntercepted == \E name \in SPECIAL_METHODS : \E args \in Args(name) : StepProxy(name, args)

\* An operation of the catalogue the class has no method for.
ProxyOther ==
    \E name \in Catalogue \ SPECIAL_METHODS : \E args \in Args(name) : StepProxy(name, args)

NextProxy ==
    \/ ProxyIntercepted
    \/ ProxyOther

SpecProxy == InitProxy /\ [][NextProxy]_vars

C28_WitnessDefault ==
    /\ md.handles = {}
    /\ last.name = "__getitem__" /\ last.args = <<0>>
    /\ last.before = <<2, 1>>
    /\ last.exc = NoExc /\ last.ret = 2
    /\ Len(last.log) = 2

\* C29: the proxy class intercepts every operation of the catalogue under
\* its own name: the membership test, unary invert, the instance check, and
\* every arithmetic operator in its plain, reflected and augmented form,
\* floor division, true division, divmod and both shifts included.
C29_CatalogueIntercepted ==
    last.name \in Catalogue =>
        /\ last.name \in SPECIAL_METHODS
        /\ last.log # <<>>
        /\ Head(last.log) = Event("handler", last.before, last.name, last.args)

\* xs is the beginning of ys, and ys goes on.
IsProperPrefix(xs, ys) == Len(xs) < Len(ys) /\ xs = SubSeq(ys, 1, Len(xs))

\* C30: when the items of one operand are the first items of the other,
\* which has more, the shorter one is the lower: for a LazyList a that is
\* such a beginning of b, a < b is true; for a LazyList a that b is such a
\* beginning of, a < b is false and a > b is true.
C30_PrefixIsLower ==
    ret # Pending =>
        /\ IsProperPrefix(call.a, call.b) => ret[1].lt = "True"
        /\ IsProperPrefix(call.b, call.a) => (ret[1].lt # "True" /\ ret[1].gt = "True")

\* ---------------------------------------------------------------- SpecCLApp
CombinedSequence__reversed__(self) ==
    Flatten(Reversed([n \in 1..Len(self.sequences) |-> Reversed(self.sequences[n])]))

\* sum(map(len, self.sequences)), as the claim of C31 states the length.
SumOfLengths(self) == Sum([n \in 1..Len(self.sequences) |-> Len(self.sequences[n])])

\* A mutant of append: the item goes to the first constituent.
CombinedList_append_first(self, item) ==
    IF self.sequences = <<>> THEN Raise(self, "IndexError")
    ELSE Ok([self EXCEPT !.sequences[1] = Append(@, item)], None)

\* self.sequences[-1].append(item)
CombinedList_append(self, item) ==
    LET n == Len(self.sequences)
    IN  IF n = 0 THEN Raise(self, "IndexError")
        ELSE Ok([self EXCEPT !.sequences[n] = Append(@, item)], None)

\* self.sequences[-1].extend(items)
CombinedList_extend(self, items) ==
    LET n == Len(self.sequences)
    IN  IF n = 0 THEN Raise(self, "IndexError")
        ELSE Ok([self EXCEPT !.sequences[n] = @ \o items], None)

\* A CombinedList over up to MaxSeqs lists that hold 1, 2, 3, ... at first.
\* The view holds the lists themselves, so their owner's append shows in
\* md.sequences; last is the latest call on the view with the view before it.
InitCLApp ==
    /\ \E lens \in SeqsUpTo(0..MaxLen, MaxSeqs) :
           md = CombinedSequence__init__(Numbered(lens, 0))
    /\ last = [op |-> "none", items |-> <<>>, ret |-> None, exc |-> NoExc, before |-> <<>>]
    /\ od = Idle /\ hist = Idle /\ call = Idle /\ ret = Idle /\ ll = Idle /\ im = Idle

Room(n) == SumOfLengths(md) + n <= MaxLen + MaxItems

\* Items that are not in the view: the numbers after those it holds.
NextItems(n) == [i \in 1..n |-> SumOfLengths(md) + i]

StepCLApp(name, items, r) ==
    /\ md' = r.self
    /\ last' = [op |-> name, items |-> items, ret |-> r.ret, exc |-> r.exc,
                before |-> md.sequences]
    /\ UNCHANGED <<od, hist, call, ret, ll, im>>

CLAppLen == StepCLApp("__len__", <<>>, Ok(md, CombinedSequence__len__(md)))

CLAppIter == StepCLApp("__iter__", <<>>, Ok(md, CombinedSequence__iter__(md)))

CLAppReversed == StepCLApp("__reversed__", <<>>, Ok(md, CombinedSequence__reversed__(md)))

CLAppAppend ==
    LET item == NextItems(1)[1]
    IN  Room(1) /\ StepCLApp("append", <<item>>, CombinedList_append(md, item))

CLAppExtend ==
    \E n \in 0..MaxItems :
        LET items == NextItems(n)
        IN  Room(n) /\ StepCLApp("extend", items, CombinedList_extend(md, items))

\* The owner of a constituent list appends to it.
CLAppOwner ==
    \E n \in 1..Len(md.sequences) :
        LET item == NextItems(1)[1] IN
        /\ Room(1)
        /\ md' = [md EXCEPT !.sequences[n] = Append(@, item)]
        /\ last' = [op |-> "owner", items |-> <<item>>, ret |-> None, exc |-> NoExc,
                    before |-> md.sequences]
        /\ UNCHANGED <<od, hist, call, ret, ll, im>>

NextCLApp ==
    CLAppLen \/ CLAppIter \/ CLAppReversed \/ CLAppAppend \/ CLAppExtend \/ CLAppOwner

SpecCLApp == InitCLApp /\ [][NextCLApp]_vars

\* The elements of the constituents one after another, in listed order.
RECURSIVE InListedOrder(_, _)
InListedOrder(seqs, n) ==
    IF n > Len(seqs) THEN <<>>
    ELSE [i \in 1..(Len(seqs[n]) + Len(InListedOrder(seqs, n + 1))) |->
            IF i <= Len(seqs[n]) THEN seqs[n][i]
            ELSE InListedOrder(seqs, n + 1)[i - Len(seqs[n])]]

\* C31: len(view) is the sum of the constituents' lengths at the time of the
\* call, iteration yields the constituents' elements one after another in
\* listed order, reverse iteration yields exactly the reverse of that
\* ([[1, 2, 3], [4, 5, 6]] gives 6, 5, 4, 3, 2, 1); append and extend put the
\* items at the end of the last constituent, so they are the last elements
\* of the content, and change no other constituent.
C31_LengthIterationAppend ==
    LET before == last.before
        F == InListedOrder(before, 1)
        k == Len(before)
    IN  /\ last.op = "__len__" =>
              /\ last.ret = Sum([n \in 1..k |-> Len(before[n])])
              /\ md.sequences = before
        /\ last.op = "__iter__" => last.ret = F /\ md.sequences = before
        /\ last.op = "__reversed__" =>
              /\ last.ret = [i \in 1..Len(F) |-> F[Len(F) + 1 - i]]
              /\ md.sequences = before
              /\ before = <<(<<1, 2, 3>>), (<<4, 5, 6>>)>> => last.ret = <<6, 5, 4, 3, 2, 1>>
        /\ (last.op \in {"append", "extend"} /\ k > 0) =>
              /\ last.exc = NoExc
              /\ Len(md.sequences) = k
              /\ md.sequences[k] = before[k] \o last.items
              /\ \A n \in 1..(k - 1) : md.sequences[n] = before[n]
              /\ CombinedSequence__iter__(md) = F \o last.items

C31_Witness ==
    /\ last.op = "__reversed__"
    /\ last.before = <<(<<1, 2, 3>>), (<<4, 5, 6>>)>>
    /\ last.ret = <<6, 5, 4, 3, 2, 1>>

\* extend on a view of two lists whose first list its owner has grown.
C31_WitnessExtend ==
    /\ last.op = "extend" /\ last.items = <<4, 5>>
    /\ last.before = <<(<<1, 3>>), (<<2>>)>>
    /\ md.sequences = <<(<<1, 3>>), (<<2, 4, 5>>)>>

\* ---------------------------------------------------------------- SpecODPop
\* One OrderedDict under assignment, clear and the
\* removing operations. hist.order is the reference order of SpecOD;
\* hist.start holds the items when the current run of popitem(last=True)
\* calls began and hist.popped what the run has returned. last is the
\* latest call with its result and the object before it.
InitODPop ==
    /\ od = OrderedDict__init__("OrderedDict", <<>>, <<>>)
    /\ hist = [order |-> <<>>, start |-> <<>>, popped |-> <<>>]
    /\ last = [op |-> "__init__", key |-> None, lastFlag |-> TRUE, default |-> missing,
               ret |-> None, exc |-> NoExc, before |-> od]
    /\ IdleOthers

StepODPop(name, key, lastFlag, default, r, added) ==
    LET run == name = "popitem" /\ lastFlag /\ r.exc = NoExc
    IN  /\ od' = r.self
        /\ hist' = [order |-> HistAfter(hist.order, added, r.self.data),
                    start |-> IF run THEN hist.start ELSE OrderedDict_iteritems(r.self),
                    popped |-> IF run THEN Append(hist.popped, r.ret) ELSE <<>>]
        /\ last' = [op |-> name, key |-> key, lastFlag |-> lastFlag, default |-> default,
                    ret |-> r.ret, exc |-> r.exc, before |-> od]
        /\ UNCHANGED <<call, ret, ll, im, md>>

ODPopSetItem ==
    \E k \in Keys, v \in Values :
        StepODPop("__setitem__", k, TRUE, missing, Ok(OrderedDict__setitem__(od, k, v), None), <<k>>)

ODPopClear == StepODPop("clear", None, TRUE, missing, OrderedDict_clear(od), <<>>)

ODPopDelItem ==
    \E k \in Keys : StepODPop("__delitem__", k, TRUE, missing, OrderedDict__delitem__(od, k), <<>>)

ODPopPop ==
    \E k \in Keys, d \in {missing} \cup {Given(v) : v \in Values} :
        StepODPop("pop", k, TRUE, d, OrderedDict_pop(od, k, d), <<>>)

ODPopPopItem ==
    \E l \in BOOLEAN : StepODPop("popitem", None, l, missing, OrderedDict_popitem(od, l), <<>>)

NextODPop ==
    \/ ODPopSetItem
    \/ ODPopClear
    \/ ODPopDelItem
    \/ ODPopPop
    \/ ODPopPopItem

SpecODPop == InitODPop /\ [][NextODPop]_vars

\* C32: popitem(last=True) removes and returns the most recently inserted
\* live item and popitem(last=False) the oldest one, the other items and
\* their order staying as they were, so that repeated popitem(last=True)
\* returns the items in reverse insertion order; on an empty OrderedDict it
\* raises KeyError and changes nothing; pop and del of an absent key raise
\* KeyError (pop returns the default when one is given) and change neither
\* the mapping nor its links.
C32_PopItem ==
    LET before == last.before
        order == OrderedDict__iter__(before)
    IN  /\ last.op = "popitem" =>
              IF DOMAIN before.data = {} THEN last.exc = "KeyError" /\ od = before
              ELSE LET k == IF last.lastFlag THEN order[Len(order)] ELSE order[1]
                   IN  /\ last.exc = NoExc
                       /\ last.ret = <<k, before.data[k]>>
                       /\ hist.order = SelectSeq(order, LAMBDA x : x # k)
                       /\ OrderedDict_iteritems(od) =
                              SelectSeq(OrderedDict_iteritems(before), LAMBDA p : p[1] # k)
        /\ \A i \in 1..Len(hist.popped) :
              hist.popped[i] = hist.start[Len(hist.start) + 1 - i]
        /\ (last.op \in {"pop", "__delitem__"} /\ last.key \notin DOMAIN before.data) =>
              /\ od = before
              /\ IF last.op = "pop" /\ last.default # missing
                 THEN last.exc = NoExc /\ last.ret = last.default[1]
                 ELSE last.exc = "KeyError"

\* Three popitem() calls in a row have emptied a mapping of three items.
C32_Witness ==
    /\ last.op = "popitem" /\ last.lastFlag
    /\ Len(hist.start) = 3 /\ Len(hist.popped) = 3
    /\ hist.popped[1][1] = 2 /\ hist.popped[3][1] = 3
    /\ DOMAIN od.data = {}

\* popitem() on the empty mapping.
C32_WitnessEmpty ==
    /\ last.op = "popitem" /\ last.exc = "KeyError" /\ DOMAIN last.before.data = {}

\* pop of an absent key with a default, on a mapping that holds other keys.
C32_WitnessDefault ==
    /\ last.op = "pop" /\ last.default = Given(2) /\ last.key = 1
    /\ OrderedDict__iter__(od) = <<3, 2>> /\ last.ret = 2

\* ---------------------------------------------------------------- SpecCtrMC
\* self.iteritems(): the items of the dict part in its iteration order.
Counter_iteritems(self) ==
    LET ks == dict__iter__(self)
    IN  [i \in 1..Len(ks) |-> <<ks[i], self.data[ks[i]]>>]

\* sorted(items, key=itemgetter(1), reverse=True): item by item into the
\* result, behind every item whose count is not lower (the sort is stable).
RECURSIVE SortedByCount(_, _)
SortedByCount(result, items) ==
    IF items = <<>> THEN result
    ELSE LET it == Head(items)
             ahead == Cardinality({i \in 1..Len(result) : result[i][2] >= it[2]})
         IN  SortedByCount(SubSeq(result, 1, ahead) \o <<it>> \o SubSeq(result, ahead + 1, Len(result)),
                           Tail(items))

\* A mutant of nlargest: of the items with the highest count the one that
\* comes last goes first.
RECURSIVE nlargest_latest(_, _)
nlargest_latest(n, items) ==
    IF n <= 0 \/ items = <<>> THEN <<>>
    ELSE LET top == CHOOSE i \in 1..Len(items) :
                        \A j \in 1..Len(items) :
                            items[j][2] < items[i][2] \/ (items[j][2] = items[i][2] /\ j <= i)
         IN  <<items[top]>> \o nlargest_latest(n - 1, SubSeq(items, 1, top - 1)
                                                        \o SubSeq(items, top + 1, Len(items)))

\* heapq.nlargest(n, items, key=itemgetter(1)): the items are ranked by
\* (count, -position), so the highest count goes first and of two items with
\* one count the earlier one; the n highest come back in that order.
RECURSIVE nlargest(_, _)
nlargest(n, items) ==
    IF n <= 0 \/ items = <<>> THEN <<>>
    ELSE LET top == CHOOSE i \in 1..Len(items) :
                        \A j \in 1..Len(items) :
                            items[j][2] < items[i][2] \/ (items[j][2] = items[i][2] /\ i <= j)
         IN  <<items[top]>> \o nlargest(n - 1, SubSeq(items, 1, top - 1)
                                                 \o SubSeq(items, top + 1, Len(items)))

\* most_common(n): n is <<>> when it is not given (None).
Counter_most_common(self, n) ==
    IF n = <<>> THEN SortedByCount(<<>>, Counter_iteritems(self))
    ELSE nlargest(n[1], Counter_iteritems(self))

\* Counter('Hello, World!') with the characters numbered by first occurrence:
\* H e l o , (space) W r d ! are 1 .. 10.
HelloWorld == <<1, 2, 3, 3, 4, 5, 6, 7, 4, 8, 3, 9, 10>>

\* most_common() and most_common(n) on one Counter, built from a mapping of
\* up to NKeys counts or from the characters of 'Hello, World!'.
InitCtrMC ==
    /\ call \in [c : {Counter__init__(c, <<>>) : c \in CountMaps(NKeys)}
                        \cup {Counter__init__([kind |-> "elements", items |-> HelloWorld], <<>>)},
                 n : 0..(NKeys + 1)]
    /\ ret = Pending
    /\ od = Idle /\ hist = Idle /\ last = Idle /\ ll = Idle /\ im = Idle /\ md = Idle

CtrMC ==
    /\ ret = Pending
    /\ ret' = Done([all |-> Counter_most_common(call.c, <<>>),
                    some |-> Counter_most_common(call.c, <<call.n>>)])
    /\ UNCHANGED <<od, hist, last, call, ll, im, md>>

SpecCtrMC == InitCtrMC /\ [][CtrMC]_vars

\* The place of element e in the iteration of the Counter c.
PlaceOf(c, e) == CHOOSE i \in 1..Len(dict__iter__(c)) : dict__iter__(c)[i] = e

\* C33: most_common() returns all (element, count) items by descending
\* count, items of one count in the order of the Counter's iteration, and
\* most_common(n) for n >= 0 is the first n items of most_common(); for the
\* characters of 'Hello, World!' most_common(2) is [('l', 3), ('o', 2)].
C33_MostCommon ==
    ret # Pending =>
        LET all == ret[1].all
            some == ret[1].some
            c == call.c
        IN  /\ Len(all) = Cardinality(DOMAIN c.data)
            /\ \A e \in DOMAIN c.data : \E i \in 1..Len(all) : all[i] = <<e, c.data[e]>>
            /\ \A i, j \in 1..Len(all) :
                   i < j => \/ all[i][2] > all[j][2]
                            \/ all[i][2] = all[j][2] /\ PlaceOf(c, all[i][1]) < PlaceOf(c, all[j][1])
            /\ some = SubSeq(all, 1, IF call.n < Len(all) THEN call.n ELSE Len(all))
            /\ (Len(all) = 10 /\ call.n = 2) => some = <<(<<3, 3>>), (<<4, 2>>)>>

\* most_common(2) where the second and third items have one count.
C33_Witness ==
    /\ ret # Pending
    /\ call.c.data = (1 :> 1 @@ 2 :> 2 @@ 3 :> 1)
    /\ call.n = 2
    /\ ret[1].some = <<(<<2, 2>>), (<<1, 1>>)>>

\* most_common(2) of Counter('Hello, World!').
C33_WitnessHello ==
    /\ ret # Pending
    /\ Cardinality(DOMAIN call.c.data) = 10 /\ call.n = 2
    /\ ret[1].some = <<(<<3, 3>>), (<<4, 2>>)>>

\* ---------------------------------------------------------------- SpecCtrEl
\* repeat(element, count): nothing for a count that is not positive.
repeat(element, count) == [i \in 1..count |-> element]

\* chain(*starmap(repeat, self.iteritems()))
Counter_elements(self) ==
    LET items == Counter_iteritems(self)
    IN  Flatten([i \in 1..Len(items) |-> repeat(items[i][1], items[i][2])])

\* One Counter (held in md) built from a sequence of elements, under update
\* with elements, with a mapping of counts and with a keyword binding, and
\* read with elements(). hist.source is the sequence it was built from (until
\* the first update), hist.counted the number of elements counted so far;
\* last is the latest
\* call that changed or read the Counter, what it contributed per element and
\* the counts before it.
Contributions == 0..NVals

NoContribution == [e \in {} |-> 0]

InitCtrEl ==
    /\ \E es \in SeqsUpTo(Keys, MaxLen) \cup {HelloWorld} :
           /\ md = Counter__init__([kind |-> "elements", items |-> es], <<>>)
           /\ hist = [source |-> es, counted |-> Len(es)]
    /\ last = [op |-> "__init__", contributed |-> NoContribution, before |-> EmptyMap,
               ret |-> <<>>]
    /\ od = Idle /\ call = Idle /\ ret = Idle /\ ll = Idle /\ im = Idle

StepCtrEl(name, r, contributed) ==
    /\ Within(r.self)
    /\ md' = r.self
    /\ hist' = [source |-> <<>>,
                counted |-> hist.counted + Sum([i \in 1..Len(contributed) |-> contributed[i][2]])]
    /\ last' = [op |-> name,
                contributed |-> [e \in {contributed[i][1] : i \in 1..Len(contributed)} |->
                                    Sum([i \in 1..Len(contributed) |->
                                            IF contributed[i][1] = e THEN contributed[i][2] ELSE 0])],
                before |-> md.data, ret |-> <<>>]
    /\ UNCHANGED <<od, call, ret, ll, im>>

CtrElUpdate ==
    \E es \in SeqsUpTo(Keys, MaxPairs) \ {<<>>} :
        StepCtrEl("update", Counter_update(md, [kind |-> "elements", items |-> es], <<>>),
                  [i \in 1..Len(es) |-> <<es[i], 1>>])

CtrElUpdateCounts ==
    \E e \in Keys, c \in Contributions :
        StepCtrEl("update", Counter_update(md, [kind |-> "counts", items |-> <<(<<e, c>>)>>], <<>>),
                  <<(<<e, c>>)>>)

CtrElUpdateKw ==
    \E e \in Keys, c \in Contributions :
        StepCtrEl("update", Counter_update(md, NoSource, <<(<<e, c>>)>>), <<(<<e, c>>)>>)

CtrElElements ==
    /\ last' = [op |-> IF last.op = "__init__" THEN "__init__, elements" ELSE "elements",
                contributed |-> NoContribution, before |-> md.data,
                ret |-> Counter_elements(md)]
    /\ UNCHANGED <<od, hist, call, ret, ll, im, md>>

NextCtrEl ==
    \/ CtrElUpdate
    \/ CtrElUpdateCounts
    \/ CtrElUpdateKw
    \/ CtrElElements

SpecCtrEl == InitCtrEl /\ [][NextCtrEl]_vars

C34_WitnessHello ==
    /\ last.op = "__init__, elements" /\ hist.source = HelloWorld /\ Len(last.ret) = 13

\* ---------------------------------------------------------------- SpecLLAdd
\* self + other: the new LazyList's iterator is chain(self, other), which
\* holds the two operands and has taken nothing from them: `at` is the
\* operand it reads (1 or 2, 3 at its end) and `index` the next index it
\* asks that operand for. Both operands are handed back as they are.
\* A mutant of __add__: the operands are read to their ends and the result
\* is built from the two lists.
LazyList__add__eager(self, other) ==
    LET a == LazyList_exhaust(self, <<>>)
        b == IF IsLazy(other) THEN LazyList_exhaust(other, <<>>) ELSE other
    IN  [exc |-> NoExc, self |-> a, other |-> b,
         ret |-> [exhausted |-> TRUE,
                  collected |-> a.collected \o (IF IsLazy(b) THEN b.collected ELSE b.list),
                  iterator |-> [at |-> 3, index |-> 0]]]

LazyList__add__(self, other) ==
    IF ~(IsLazy(other) \/ "list" \in DOMAIN other)
    THEN [exc |-> "TypeError", self |-> self, other |-> other, ret |-> None]
    ELSE [exc |-> NoExc, self |-> self, other |-> other,
          ret |-> [exhausted |-> FALSE, collected |-> <<>>, iterator |-> [at |-> 1, index |-> 0]]]

\* One iteration of the loop in _exhaust on the result c of a + b:
\* c._iterator.next() asks the operand at hand for its item at `index` (a
\* LazyList is iterated through __getitem__ until IndexError) and goes on to
\* the next operand when that one has ended. s is [a, b, c].
RECURSIVE ChainPull(_, _)
ChainPull(s, times) ==
    LET it == s.c.iterator
        x == IF it.at = 1 THEN s.a ELSE s.b
    IN  IF times <= 0 \/ s.c.exhausted THEN s
        ELSE IF it.at = 3 THEN [s EXCEPT !.c.exhausted = TRUE]
        ELSE LET r == IF IsLazy(x) THEN LazyList__getitem__(x, it.index)
                      ELSE ListGet(x.list, it.index)
                 x1 == IF IsLazy(x) THEN r.self ELSE x
                 s1 == IF it.at = 1 THEN [s EXCEPT !.a = x1] ELSE [s EXCEPT !.b = x1]
             IN  IF r.exc # NoExc
                 THEN ChainPull([s1 EXCEPT !.c.iterator = [at |-> it.at + 1, index |-> 0]], times)
                 ELSE ChainPull([s1 EXCEPT !.c.collected = Append(@, r.ret),
                                           !.c.iterator.index = it.index + 1], times - 1)

\* The items an operand holds and has yet to yield (a finite source).
ContentOf(x) == IF IsLazy(x) THEN x.collected \o x.iterator.pending ELSE x.list

\* c[i] for i >= 0 and len(c) on the result.
Chained__getitem__(s, i) == ChainPull(s, i + 1 - Len(s.c.collected))

Chained__len__(s) == ChainPull(s, Len(ContentOf(s.a)) + Len(ContentOf(s.b)) + 1)

\* ll holds the operands a and b and, once a + b was evaluated, its result
\* c. a is a LazyList over a list, an iterator or itertools.count(); b is a
\* list or a LazyList, its items numbered after a's. last is the latest
\* operation with the operands' known lengths and exhausted flags before it.
NoResult == [exhausted |-> FALSE, collected |-> <<>>, iterator |-> [at |-> 0, index |-> 0]]

KnownLength(x) == IF IsLazy(x) THEN LazyList_known_length(x) ELSE Len(x.list)

Exhausted(x) == IF IsLazy(x) THEN x.exhausted ELSE TRUE

InitLLAdd ==
    /\ \E sa \in LLSources, kb \in {"plain", "list", "iter"}, nb \in 0..MaxSrc :
           ll = [a |-> LazyList__init__(sa),
                 b |-> Operand(kb, [i \in 1..nb |-> MaxSrc + i]),
                 c |-> NoResult]
    /\ last = [op |-> "none", known |-> <<0, 0>>, exhausted |-> <<FALSE, FALSE>>]
    /\ od = Idle /\ hist = Idle /\ call = Idle /\ ret = Idle /\ im = Idle /\ md = Idle

StepLLAdd(name, s) ==
    /\ s.a.iterator.n <= MaxLen
    /\ ll' = s
    /\ last' = [op |-> name, known |-> <<KnownLength(ll.a), KnownLength(ll.b)>>,
                exhausted |-> <<Exhausted(ll.a), Exhausted(ll.b)>>]
    /\ UNCHANGED <<od, hist, call, ret, im, md>>

\* a[i] or b[i] by the operand's holder, before or after the addition.
LLAddReadA ==
    \E i \in 0..MaxSrc : StepLLAdd("a[i]", [ll EXCEPT !.a = LazyList__getitem__(ll.a, i).self])

LLAddReadB ==
    \E i \in 0..MaxSrc :
        /\ IsLazy(ll.b)
        /\ StepLLAdd("b[i]", [ll EXCEPT !.b = LazyList__getitem__(ll.b, i).self])

LLAddAdd ==
    /\ ll.c = NoResult
    /\ LET r == LazyList__add__(ll.a, ll.b)
       IN  StepLLAdd("__add__", [a |-> r.self, b |-> r.other, c |-> r.ret])

LLAddGetItem ==
    \E i \in 0..(2 * MaxSrc) :
        /\ ll.c # NoResult
        /\ StepLLAdd("c[i]", Chained__getitem__(ll, i))

LLAddLen ==
    /\ ll.c # NoResult
    /\ ll.a.iterator.tail = "end"
    /\ StepLLAdd("len(c)", Chained__len__(ll))

NextLLAdd ==
    \/ LLAddReadA
    \/ LLAddReadB
    \/ LLAddAdd
    \/ LLAddGetItem
    \/ LLAddLen

SpecLLAdd == InitLLAdd /\ [][NextLLAdd]_vars

\* C35: a + b for a LazyList a and a list or LazyList b returns a new
\* LazyList whose content is a's content followed by b's content, and making
\* it takes nothing from either operand's source: right after the + the
\* known length and the exhausted flag of a and of b are what they were
\* before it.
C35_AddIsLazy ==
    /\ last.op = "__add__" =>
          /\ ll.c # NoResult
          /\ <<KnownLength(ll.a), KnownLength(ll.b)>> = last.known
          /\ <<Exhausted(ll.a), Exhausted(ll.b)>> = last.exhausted
    /\ (ll.c # NoResult /\ ll.a.iterator.tail = "end") =>
          LET content == ContentOf(ll.a) \o ContentOf(ll.b)
          IN  /\ Len(ll.c.collected) <= Len(content)
              /\ ll.c.collected = SubSeq(content, 1, Len(ll.c.collected))
              /\ ll.c.exhausted => ll.c.collected = content
              /\ last.op = "len(c)" => ll.c.exhausted
    /\ (ll.c # NoResult /\ ll.a.iterator.tail = "count") =>
          /\ ~ll.c.exhausted
          /\ ll.c.collected = [i \in 1..Len(ll.c.collected) |-> i - 1]

\* a + b where a has yielded one of its two items and b, a LazyList over an
\* iterator, none of its two.
C35_Witness ==
    /\ last.op = "__add__"
    /\ IsLazy(ll.b)
    /\ last.known = <<1, 0>> /\ last.exhausted = <<FALSE, FALSE>>
    /\ Len(ContentOf(ll.a)) = 2 /\ Len(ContentOf(ll.b)) = 2

\* len() of the sum has read both operands to their ends.
C35_WitnessRead ==
    /\ last.op = "len(c)"
    /\ last.exhausted = <<FALSE, FALSE>>
    /\ ll.c.exhausted /\ ll.c.collected = <<1, 2, 3, 4>>
    /\ ll.a.exhausted /\ ll.b.exhausted

\* ---------------------------------------------------------------- namedtuple
\* keyword.iskeyword over the names the model uses.
iskeyword(name) == name \in {"class", "def"}

\* make_name: the next value of name_generator, '_%d' % i for i = 1, 2, ...
make_name(made) == "_" \o ToString(made + 1)

\* The loop over field_names; made is the number of names the generator has
\* yielded, real and seen are real_field_names and seen_names.
RECURSIVE RealFieldNames(_, _, _, _, _)
RealFieldNames(field_names, rename, real, seen, made) ==
    IF field_names = <<>> THEN [exc |-> NoExc, fields |-> real]
    ELSE LET name == Head(field_names)
             renamed == iskeyword(name) \/ name \in seen
             name1 == IF renamed THEN make_name(made) ELSE name
         IN  IF renamed /\ ~rename THEN [exc |-> "ValueError", fields |-> <<>>]
             ELSE RealFieldNames(Tail(field_names), rename, Append(real, name1),
                                 seen \cup {name1}, IF renamed THEN made + 1 ELSE made)

\* `exec code`: def __new__(cls, <fieldnames>) is a SyntaxError when one
\* argument name occurs twice.
ExecCode(fields) ==
    IF \E i, j \in 1..Len(fields) : i # j /\ fields[i] = fields[j]
    THEN [exc |-> "SyntaxError", fields |-> fields]
    ELSE [exc |-> NoExc, fields |-> fields]

\* namedtuple(typename, field_names, rename=rename): the outcome and the
\* _fields of the class.
namedtuple(typename, field_names, rename) ==
    IF iskeyword(typename) THEN [exc |-> "ValueError", fields |-> <<>>]
    ELSE LET r == RealFieldNames(field_names, rename, <<>>, {}, 0)
         IN  IF r.exc # NoExc THEN r ELSE ExecCode(r.fields)

\* ---------------------------------------------------------------- SpecNT
\* namedtuple('T', field_names) with and without rename, for every sequence
\* of up to MaxLen names, all of them identifiers.
FieldNames == {"class", "foo", "bar", "_1", "_2"}

InitNT ==
    /\ call \in [field_names : SeqsUpTo(FieldNames, MaxLen)]
    /\ ret = Pending
    /\ od = Idle /\ hist = Idle /\ last = Idle /\ ll = Idle /\ im = Idle /\ md = Idle

NTCall ==
    /\ ret = Pending
    /\ ret' = Done([renaming |-> namedtuple("T", call.field_names, TRUE),
                    strict |-> namedtuple("T", call.field_names, FALSE)])
    /\ UNCHANGED <<od, hist, last, call, ll, im, md>>

SpecNT == InitNT /\ [][NTCall]_vars

\* The names of the pass that are reserved words or were given before.
Offending(names) ==
    {i \in 1..Len(names) : iskeyword(names[i]) \/ \E j \in 1..(i - 1) : names[j] = names[i]}

\* C36: with rename, every field name that is a reserved word or a
\* repetition is replaced by _1, _2, ... numbered by one counter over the
\* whole pass (class, foo, class gives _1, foo, _2), the call does not fail
\* and the resulting field names are pairwise distinct; without rename the
\* same field names raise ValueError.
C36_Rename ==
    ret # Pending =>
        LET names == call.field_names
            r == ret[1].renaming
        IN  /\ r.exc = NoExc
            /\ Len(r.fields) = Len(names)
            /\ \A i, j \in 1..Len(r.fields) : i # j => r.fields[i] # r.fields[j]
            /\ \A i \in Offending(names) :
                   r.fields[i] = "_" \o ToString(Cardinality({j \in Offending(names) : j <= i}))
            /\ names = <<"class", "foo", "class">> => r.fields = <<"_1", "foo", "_2">>
            /\ Offending(names) # {} => ret[1].strict.exc = "ValueError"

\* ---------------------------------------------------------------- SpecODLinks
\* One OrderedDict under all of its mutating operations; last names the
\* latest one.
InitODLinks ==
    /\ od = OrderedDict__init__("OrderedDict", <<>>, <<>>)
    /\ last = [op |-> "__init__", exc |-> NoExc]
    /\ hist = Idle /\ IdleOthers

StepODLinks(name, r) ==
    /\ od' = r.self
    /\ last' = [op |-> name, exc |-> r.exc]
    /\ UNCHANGED <<hist, call, ret, ll, im, md>>

ODLinksSetItem ==
    \E k \in Keys, v \in Values :
        StepODLinks("__setitem__", Ok(OrderedDict__setitem__(od, k, v), None))

ODLinksDelItem == \E k \in Keys : StepODLinks("__delitem__", OrderedDict__delitem__(od, k))

ODLinksPop ==
    \E k \in Keys, d \in {missing} \cup {Given(v) : v \in Values} :
        StepODLinks("pop", OrderedDict_pop(od, k, d))

ODLinksPopItem == \E l \in BOOLEAN : StepODLinks("popitem", OrderedDict_popitem(od, l))

ODLinksSetDefault ==
    \E k \in Keys, v \in Values : StepODLinks("setdefault", OrderedDict_setdefault(od, k, v))

ODLinksUpdate ==
    \E arg \in Sources(MaxPairs) : StepODLinks("update", OrderedDict_update(od, arg, <<>>))

ODLinksMoveToEnd ==
    \E k \in Keys, f \in BOOLEAN : StepODLinks("move_to_end", OrderedDict_move_to_end(od, k, f))

ODLinksClear == StepODLinks("clear", OrderedDict_clear(od))

NextODLinks ==
    \/ ODLinksSetItem
    \/ ODLinksDelItem
    \/ ODLinksPop
    \/ ODLinksPopItem
    \/ ODLinksSetDefault
    \/ ODLinksUpdate
    \/ ODLinksMoveToEnd
    \/ ODLinksClear

SpecODLinks == InitODLinks /\ [][NextODLinks]_vars

\* The links met by following f from the root, up to the root or to a link
\* met before.
RECURSIVE Walk(_, _, _)
Walk(f, curr, met) ==
    IF curr = Root \/ curr \in Range(met) \/ curr \notin DOMAIN f THEN met
    ELSE Walk(f, f[curr], Append(met, curr))

\* C37: after any sequence of assignments, deletions, pop, popitem,
\* setdefault, update, move_to_end and clear the links are a well-formed
\* circular doubly linked list anchored at the root: _map holds one link for
\* every live key and for no other key, following next from the root meets
\* every live key's link once and comes back to the root, the root stands
\* for no key, x.next.prev is x and x.prev.next is x for every link, and
\* reverse iteration is the reverse of forward iteration.
C37_LinkList ==
    LET links == od.map \cup {Root}
        walk == Walk(od.next, od.next[Root], <<>>)
    IN  /\ od.map = DOMAIN od.data
        /\ Root \notin od.map
        /\ DOMAIN od.next = links /\ DOMAIN od.prev = links
        /\ \A x \in links : od.next[x] \in links /\ od.prev[x] \in links
        /\ Range(walk) = od.map /\ Len(walk) = Cardinality(od.map)
        /\ (IF walk = <<>> THEN od.next[Root] ELSE od.next[walk[Len(walk)]]) = Root
        /\ \A x \in links : od.prev[od.next[x]] = x /\ od.next[od.prev[x]] = x
        /\ OrderedDict__iter__(od) = walk
        /\ OrderedDict__reversed__(od) = Reversed(OrderedDict__iter__(od))

\* A key between two others has just been deleted from a mapping of three.
C37_Witness ==
    /\ last.op = "__delitem__" /\ last.exc = NoExc
    /\ OrderedDict__iter__(od) = <<3, 1>>
    /\ od.next = (Root :> 3 @@ 3 :> 1 @@ 1 :> Root)
    /\ od.prev = (Root :> 1 @@ 1 :> 3 @@ 3 :> Root)

\* move_to_end(last=False) on a mapping of three keys.
C37_WitnessMoved ==
    /\ last.op = "move_to_end" /\ last.exc = NoExc
    /\ OrderedDict__iter__(od) = <<2, 3, 1>>
    /\ od.prev[3] = 2

\* ---------------------------------------------------------------- SpecCDRef
\* A CombinedDict and the mappings it was given, as objects: md.heap holds
\* the MaxDicts dict objects, md.given is the caller's list of them and
\* md.view the view once it is constructed (<<>> before). Object i starts
\* with the keys i and i + 1, both with the value i. hist counts the changes
\* made to the objects and to the caller's list and keeps what the list
\* held when the view was constructed.
Ref(id) == [ref |-> id]

\* The view with every reference replaced by the object it points at now.
Resolved(view, heap) ==
    [view EXCEPT !.dicts = [i \in 1..Len(view.dicts) |->
                              IF "ref" \in DOMAIN view.dicts[i] THEN heap[view.dicts[i].ref]
                              ELSE view.dicts[i]]]

InitCDRef ==
    /\ md = [heap |-> [id \in 1..MaxDicts |->
                          dict__init__("dict", <<(<<id, id>>), (<<id + 1, id>>)>>, <<>>)],
             given |-> [i \in 1..MaxDicts |-> Ref(i)],
             view |-> <<>>]
    /\ hist = [edits |-> 0, listEdits |-> 0, constructed |-> <<>>]
    /\ last = [op |-> "none"]
    /\ od = Idle /\ call = Idle /\ ret = Idle /\ ll = Idle /\ im = Idle

\* CombinedDict(given): list(dicts) is a new list of the same objects.
CDRefConstruct ==
    /\ md.view = <<>>
    /\ md' = [md EXCEPT !.view = <<CombinedDictMixin__init__("CombinedDict", md.given)>>]
    /\ hist' = [hist EXCEPT !.constructed = md.given]
    /\ last' = [op |-> "__init__"]
    /\ UNCHANGED <<od, call, ret, ll, im>>

\* The holder of a constituent sets or deletes one of its keys.
CDRefSetItem ==
    \E id \in 1..MaxDicts, k \in Keys, v \in Values :
        /\ hist.edits < MaxEdit
        /\ md' = [md EXCEPT !.heap[id] = dict__setitem__(@, k, v)]
        /\ hist' = [hist EXCEPT !.edits = @ + 1]
        /\ last' = [op |-> IF k \in DOMAIN md.heap[id].data THEN "changed" ELSE "added"]
        /\ UNCHANGED <<od, call, ret, ll, im>>

CDRefDelItem ==
    \E id \in 1..MaxDicts, k \in Keys :
        /\ hist.edits < MaxEdit
        /\ k \in DOMAIN md.heap[id].data
        /\ md' = [md EXCEPT !.heap[id] = dict__delitem__(@, k).self]
        /\ hist' = [hist EXCEPT !.edits = @ + 1]
        /\ last' = [op |-> "removed"]
        /\ UNCHANGED <<od, call, ret, ll, im>>

\* The caller appends a mapping to the list it passed, or removes one.
CDRefListAppend ==
    \E id \in 1..MaxDicts :
        /\ hist.listEdits < MaxEdit
        /\ md' = [md EXCEPT !.given = Append(@, Ref(id))]
        /\ hist' = [hist EXCEPT !.listEdits = @ + 1]
        /\ last' = [op |-> "list.append"]
        /\ UNCHANGED <<od, call, ret, ll, im>>

CDRefListPop ==
    \E i \in 1..Len(md.given) :
        /\ hist.listEdits < MaxEdit
        /\ md' = [md EXCEPT !.given = SubSeq(@, 1, i - 1) \o SubSeq(@, i + 1, Len(@))]
        /\ hist' = [hist EXCEPT !.listEdits = @ + 1]
        /\ last' = [op |-> "list.pop"]
        /\ UNCHANGED <<od, call, ret, ll, im>>

\* Lookup and membership of every key, iteration and length on the view.
CDRefRead ==
    /\ md.view # <<>>
    /\ last.op # "read"
    /\ LET view == Resolved(md.view[1], md.heap)
       IN  last' = [op |-> "read",
                    getitem |-> [k \in Keys |-> LET r == CombinedDictMixin__getitem__(view, view.dicts, k)
                                               IN  [exc |-> r.exc, ret |-> r.ret]],
                    contains |-> [k \in Keys |-> CombinedDictMixin__contains__(view, k)],
                    iter |-> CombinedDictMixin__iter__(view),
                    len |-> CombinedDictMixin__len__(view),
                    after |-> last.op]
    /\ UNCHANGED <<od, hist, call, ret, ll, im, md>>

NextCDRef ==
    \/ CDRefConstruct
    \/ CDRefSetItem
    \/ CDRefDelItem
    \/ CDRefListAppend
    \/ CDRefListPop
    \/ CDRefRead

SpecCDRef == InitCDRef /\ [][NextCDRef]_vars

\* The objects the view was constructed over, as they are now.
Current == [i \in 1..Len(hist.constructed) |-> md.heap[hist.constructed[i].ref]]

\* C38: a combined view holds its constituents by reference: after a
\* constituent was changed (a key added, changed or removed) following the
\* view's construction, lookup, membership, iteration and length on the view
\* show the constituent's current contents, whereas adding mappings to or
\* removing them from the list that was passed to the constructor does not
\* change the view.
C38_ByReference ==
    /\ md.view # <<>> =>
          md.view[1].dicts = hist.constructed
    /\ last.op = "read" =>
          LET holding(k) == {i \in 1..Len(Current) : k \in DOMAIN Current[i].data}
              present == {k \in Keys : holding(k) # {}}
              first(k) == CHOOSE i \in holding(k) : \A j \in holding(k) : i <= j
          IN  /\ \A k \in Keys :
                     IF k \in present
                     THEN last.getitem[k] = [exc |-> NoExc, ret |-> Current[first(k)].data[k]]
                     ELSE last.getitem[k].exc = "KeyError"
              /\ \A k \in Keys : last.contains[k] <=> k \in present
              /\ Range(last.iter) = present
              /\ Len(last.iter) = Cardinality(present)
              /\ last.len = Cardinality(present)

\* The first constituent's key 2 was removed after the construction: the
\* view reads the second constituent's value for it.
C38_Witness ==
    /\ last.op = "read" /\ last.after = "removed"
    /\ hist.constructed = <<Ref(1), Ref(2)>>
    /\ 2 \notin DOMAIN md.heap[1].data
    /\ last.getitem[2] = [exc |-> NoExc, ret |-> 2]

\* A mapping was removed from the caller's list after the construction.
C38_WitnessList ==
    /\ last.op = "read" /\ last.after = "list.pop"
    /\ md.given = <<Ref(2)>>
    /\ md.view[1].dicts = <<Ref(1), Ref(2)>>
    /\ last.len = 3

\* ---------------------------------------------------------------- SpecOSCmp
\* other is an OrderedSet: len(self) == len(other) and list(self) == list(other).
OrderedSet__eq__(self, other) ==
    /\ OrderedSet__len__(self) = OrderedSet__len__(other)
    /\ OrderedSet__iter__(self) = OrderedSet__iter__(other)

OrderedSet__ne__(self, other) == ~OrderedSet__eq__(self, other)

OrderedSet_issubset(self, other) ==
    \A i \in 1..Len(OrderedSet__iter__(self)) :
        OrderedSet__contains__(other, OrderedSet__iter__(self)[i])

OrderedSet__le__(self, other) == OrderedSet_issubset(self, other)

OrderedSet__lt__(self, other) ==
    OrderedSet_issubset(self, other) /\ OrderedSet__ne__(self, other)

OrderedSet_issuperset(self, other) ==
    \A i \in 1..Len(OrderedSet__iter__(other)) :
        OrderedSet__contains__(self, OrderedSet__iter__(other)[i])

OrderedSet__ge__(self, other) == OrderedSet_issuperset(self, other)

OrderedSet__gt__(self, other) ==
    OrderedSet_issuperset(self, other) /\ OrderedSet__ne__(self, other)

\* The four comparisons of two OrderedSets built from sequences of elements.
InitOSCmp ==
    /\ call \in [a : SeqsUpTo(Keys, MaxElems), b : SeqsUpTo(Keys, MaxElems)]
    /\ ret = Pending
    /\ od = Idle /\ hist = Idle /\ last = Idle /\ ll = Idle /\ im = Idle /\ md = Idle

OSCompare ==
    /\ ret = Pending
    /\ LET a == OrderedSet__init__(call.a)
           b == OrderedSet__init__(call.b)
       IN  ret' = Done([le |-> OrderedSet__le__(a, b), lt |-> OrderedSet__lt__(a, b),
                        ge |-> OrderedSet__ge__(a, b), gt |-> OrderedSet__gt__(a, b)])
    /\ UNCHANGED <<od, hist, last, call, ll, im, md>>

SpecOSCmp == InitOSCmp /\ [][OSCompare]_vars

\* C39: for OrderedSets a and b, a <= b is true exactly when every element
\* of a is in b and a < b exactly when b moreover has an element that is not
\* in a, and likewise a >= b and a > b; two OrderedSets of the same elements
\* in different insertion orders are neither strict subsets nor strict
\* supersets of one another.
C39_SubsetComparisons ==
    ret # Pending =>
        LET A == Range(call.a)
            B == Range(call.b)
        IN  /\ ret[1].le <=> A \subseteq B
            /\ ret[1].lt <=> (A \subseteq B /\ B \ A # {})
            /\ ret[1].ge <=> B \subseteq A
            /\ ret[1].gt <=> (B \subseteq A /\ A \ B # {})
            /\ A = B => ~ret[1].lt /\ ~ret[1].gt

\* ---------------------------------------------------------------- SpecCtrRead
\* self[key] as a call: the value and the Counter after it. dict.__getitem__
\* hands an absent key to __missing__ and stores nothing.
\* A mutant of the lookup: the 0 of an absent key is stored, as a defaultdict
\* would.
Counter_subscript_storing(self, key) ==
    IF key \in DOMAIN self.data THEN Ok(self, self.data[key])
    ELSE Ok(dict__setitem__(self, key, 0), 0)

Counter_subscript(self, key) ==
    IF key \in DOMAIN self.data THEN Ok(self, self.data[key])
    ELSE Ok(self, Counter__missing__(self, key))

\* get(key) and setdefault(key): default is <<>> when it is not given.
Counter_get_call(self, key, default) ==
    Ok(self, Counter_get(self, key, IF default = <<>> THEN 0 ELSE default[1]))

Counter_setdefault(self, key, default) ==
    dict_setdefault(self, key, IF default = <<>> THEN 1 ELSE default[1])

\* newcount in the loops of __add__, __or__ and __and__.
NewCount(op, x, y) ==
    CASE op = "__add__" -> x + y
      [] op = "__or__" -> Max(x, y)
      [] OTHER -> Min(x, y)

\* The loop of a binary operator over the elements es, with the operands as
\* the lookups leave them.
RECURSIVE OperatorLoop(_, _, _, _, _)
OperatorLoop(op, result, self, other, es) ==
    IF es = <<>> THEN [self |-> self, other |-> other, ret |-> result]
    ELSE LET x == Counter_subscript(self, Head(es))
             y == Counter_subscript(other, Head(es))
             newcount == NewCount(op, x.ret, y.ret)
         IN  OperatorLoop(op, IF newcount > 0 THEN dict__setitem__(result, Head(es), newcount)
                              ELSE result,
                          x.self, y.self, Tail(es))

\* self + other and self | other: the loop over set(self) | set(other).
Counter_union_call(op, self, other) ==
    OperatorLoop(op, Counter__init__(NoSource, <<>>), self, other,
                 Ascending(DOMAIN self.data \cup DOMAIN other.data))

\* self & other: the names are swapped when self holds fewer elements, and
\* the loop goes over the elements of (the new) other that self holds.
Counter_and_call(self, other) ==
    LET swap == Cardinality(DOMAIN self.data) < Cardinality(DOMAIN other.data)
        s == IF swap THEN other ELSE self
        o == IF swap THEN self ELSE other
        r == OperatorLoop("__and__", Counter__init__(NoSource, <<>>), s, o,
                          SelectSeq(dict__iter__(o), LAMBDA e : e \in DOMAIN s.data))
    IN  [self |-> IF swap THEN r.other ELSE r.self,
         other |-> IF swap THEN r.self ELSE r.other, ret |-> r.ret]

\* self * n: the loop over the elements of self.
RECURSIVE MulLoop(_, _, _, _)
MulLoop(result, self, n, es) ==
    IF es = <<>> THEN [self |-> self, ret |-> result]
    ELSE LET x == Counter_subscript(self, Head(es))
             newcount == x.ret * n
         IN  MulLoop(IF newcount > 0 THEN dict__setitem__(result, Head(es), newcount) ELSE result,
                     x.self, n, Tail(es))

Counter_mul_call(self, n) == MulLoop(Counter__init__(NoSource, <<>>), self, n, dict__iter__(self))

\* Two Counters a and b (md.a, md.b), a built from a mapping of at most
\* MaxKw counts and b from at most MaxKw elements, under lookups, get and
\* setdefault (while a holds at most MaxKw elements) on a and the operators
\* on a and b. last is the latest call, its result and the two Counters
\* before it.
InitCtrRead ==
    /\ \E ca \in CountMaps(MaxKw), eb \in SeqsUpTo(Keys, MaxKw) :
           md = [a |-> Counter__init__(ca, <<>>),
                 b |-> Counter__init__([kind |-> "elements", items |-> eb], <<>>)]
    /\ last = [op |-> "none", key |-> None, ret |-> None, before |-> <<>>]
    /\ od = Idle /\ hist = Idle /\ call = Idle /\ ret = Idle /\ ll = Idle /\ im = Idle

StepCtrRead(name, key, a, b, value) ==
    /\ md' = [a |-> a, b |-> b]
    /\ last' = [op |-> name, key |-> key, ret |-> value, before |-> <<md.a, md.b>>]
    /\ UNCHANGED <<od, hist, call, ret, ll, im>>

CtrReadLookup ==
    \E k \in Keys :
        LET r == Counter_subscript(md.a, k) IN StepCtrRead("__getitem__", k, r.self, md.b, r.ret)

CtrReadGet ==
    \E k \in Keys :
        LET r == Counter_get_call(md.a, k, <<>>) IN StepCtrRead("get", k, r.self, md.b, r.ret)

CtrReadSetDefault ==
    \E k \in Keys :
        LET r == Counter_setdefault(md.a, k, <<>>)
        IN  /\ Cardinality(DOMAIN md.a.data) <= MaxKw
            /\ StepCtrRead("setdefault", k, r.self, md.b, r.ret)

CtrReadUnion ==
    \E op \in {"__add__", "__or__"} :
        LET r == Counter_union_call(op, md.a, md.b)
        IN  StepCtrRead(op, None, r.self, r.other, r.ret.data)

CtrReadAnd ==
    LET r == Counter_and_call(md.a, md.b)
    IN  StepCtrRead("__and__", None, r.self, r.other, r.ret.data)

CtrReadMul ==
    \E n \in Scalars :
        LET r == Counter_mul_call(md.a, n) IN StepCtrRead("__mul__", n, r.self, md.b, r.ret.data)

NextCtrRead ==
    \/ CtrReadLookup
    \/ CtrReadGet
    \/ CtrReadSetDefault
    \/ CtrReadUnion
    \/ CtrReadAnd
    \/ CtrReadMul

SpecCtrRead == InitCtrRead /\ [][NextCtrRead]_vars

\* C40: reading the count of an absent element (c[e] or c.get(e)) returns 0
\* and does not add the element: after lookups and after +, |, & and *
\* every operand has exactly the keys and counts it had before; setdefault
\* on an absent element stores it with the count 1.
C40_ReadsDoNotStore ==
    /\ last.op \in {"__getitem__", "get", "__add__", "__or__", "__and__", "__mul__"} =>
          <<md.a, md.b>> = last.before
    /\ last.op \in {"__getitem__", "get"} =>
          last.ret = CountOf(last.before[1], last.key)
    /\ last.op = "__add__" => last.ret = Counter__add__(md.a, md.b).data
    /\ last.op = "__or__" => last.ret = Counter__or__(md.a, md.b).data
    /\ last.op = "__and__" => last.ret = Counter__and__(md.a, md.b).data
    /\ last.op = "__mul__" => last.ret = Counter__mul__(md.a, last.key).data
    /\ last.op = "setdefault" =>
          /\ md.b = last.before[2]
          /\ IF last.key \in DOMAIN last.before[1].data
             THEN md.a = last.before[1] /\ last.ret = last.before[1].data[last.key]
             ELSE /\ last.ret = 1
                  /\ md.a.data = (last.key :> 1) @@ last.before[1].data

\* a[3] on a Counter that holds only the element 1.
C40_Witness ==
    /\ last.op = "__getitem__" /\ last.key = 3 /\ last.ret = 0
    /\ DOMAIN md.a.data = {1}

\* a + b where each holds an element the other lacks.
C40_WitnessAdd ==
    /\ last.op = "__add__"
    /\ DOMAIN md.a.data = {1} /\ DOMAIN md.b.data = {2}
    /\ DOMAIN last.ret = {1, 2}

\* setdefault(2) on a Counter without the element 2.
C40_WitnessSetDefault ==
    /\ last.op = "setdefault" /\ last.key = 2 /\ last.ret = 1
    /\ 2 \notin DOMAIN last.before[1].data /\ md.a.data[2] = 1

====
